---- MODULE Spec2Model ----
(***************************************************************************)
(* rx-table: a reactive table over a relational store.                     *)
(*                                                                         *)
(* Two state machines live in this module:                                 *)
(*   PageSpec  - the storage adapter's cursor pagination (findMany on top  *)
(*               of the seven queries planned by compileFindMany);         *)
(*   Spec      - the reactive Table: mutations, the event bus, the per-key *)
(*               partition, Dynamics (findUnique / findMany handles) and   *)
(*               their subscribers.                                        *)
(***************************************************************************)
EXTENDS Integers, Sequences, FiniteSets, TLC

VARIABLES
    \* ---- pagination (BetterSqlite3Storage over the composite schema)
    pgRows,      \* the rows held by the backend table
    pgInput,     \* the PageInit of the last findMany call
    pgPage,      \* the Page it returned (NoPage before the first call / on a raise)
    pgError,     \* the assertion message it raised ("none" otherwise)
    iter,        \* the caller's loop "fetch all rows with cursor pagination"
    \* ---- reactive Table (Table over a storage of the User schema)
    storage,     \* the backend table: primary key -> row, or Null
    rows,        \* Table.rows: key tuple -> cached Dynamic (0: no entry)
    dyn,         \* every Dynamic handed out (createDynamic closures)
    pipes,       \* every shared `updated` observable built by findUnique/findMany
    subs,        \* every subscription callers made to some Dynamic's `updated`
    groups,      \* partitionByKey: key -> last value of its alive group (replay 1), or Null
    refCount,    \* partitionByKey: refCount of substream subscribers
    published,   \* the key of every event batch passed to Table.events.next, in order
    lastCall,    \* the last call made on the Table, a Dynamic or the storage, and whether it raised
    \* ---- standalone partitionByKey(stream, keySelector, streamSelector)
    pk,          \* the upstream Subject, groupedObservables$, the groups and every subscriber
    \* ---- expression compiler and interpreter
    cx           \* the last expression compiled or evaluated, and what came out

pgVars == <<pgRows, pgInput, pgPage, pgError, iter>>

tbVars == <<storage, rows, dyn, pipes, subs, groups, refCount, published, lastCall>>

pkVars == <<pk>>

cxVars == <<cx>>

vars == <<pgVars, tbVars, pkVars, cxVars>>

(***************************************************************************)
(* Values                                                                  *)
(***************************************************************************)
\* the sequence of F(1, s[1]), ..., F(Len(s), s[Len(s)]), as a tuple
MapSeq(s, F(_, _)) == <<>> \o [i \in DOMAIN s |-> F(i, s[i])]

Undefined == [undefined |-> TRUE]
Null == [null |-> TRUE]

(***************************************************************************)
(* Bounds of the pagination model                                          *)
(***************************************************************************)
MaxId == 2          \* id ranges over 1..MaxId
MaxLimit == 2       \* first / last range over 0..MaxLimit
SubIds == {1, 2}
Ages == {20, 25}

(***************************************************************************)
(* The User schema of the reactive Table (id primary key, name) and the    *)
(* bounds of the reactive model                                            *)
(***************************************************************************)
Keys == {1, 2}
Names == {"a", "b"}
MaxDyn == 2         \* Dynamics handed out
MaxSubs == 2        \* subscriptions made by callers
MaxEvents == 2      \* event batches published
MaxCalls == 4       \* Dynamics, subscriptions and batches together

(***************************************************************************)
(* Expression AST (RSql/Expression.mts) and its constructors (RSql/mks.mts) *)
(* A Parameter's getValue closure is the path it reads in the context.     *)
(***************************************************************************)
mkColumn(column) == [kind |-> "column", name |-> column]

mkConstant(value) == [kind |-> "constant", value |-> value]

mkParameter(path) == [kind |-> "parameter", getValue |-> path]

mkTuple(expressions) == [kind |-> "tuple", expressions |-> expressions]

mkBinOp(operator, left, right) ==
    [kind |-> "binOp", operator |-> operator, left |-> left, right |-> right]

mkEq(left, right) == mkBinOp("=", left, right)

mkLT(left, right) == mkBinOp("<", left, right)

mkGT(left, right) == mkBinOp(">", left, right)

RECURSIVE ands(_)
ands(exprs) ==
    IF Len(exprs) = 0 THEN Undefined
    ELSE IF Len(exprs) = 1 THEN exprs[1]
    ELSE mkBinOp("AND", exprs[1], ands(Tail(exprs)))

invertDirection(dir) == IF dir = "asc" THEN "desc" ELSE "asc"

mkSelect(columns, where, orderBy, limit) ==
    [kind |-> "select", columns |-> columns, where |-> where,
     orderBy |-> orderBy, limit |-> limit]

mkCount(where) == [kind |-> "count", where |-> where]

(***************************************************************************)
(* The backend: what a prepared statement returns when run.                *)
(* Every expression evaluates to a row value (a tuple); a scalar is the    *)
(* 1-tuple, and comparison of row values is lexicographic.                 *)
(***************************************************************************)
GetValue(param, ctx) ==
    IF param.kind = "constant" THEN param.value
    ELSE IF Len(param.getValue) = 1 THEN ctx[param.getValue[1]]
    ELSE ctx[param.getValue[1]][param.getValue[2]]

LexLT(a, b) ==
    \E i \in 1..Len(a) : a[i] < b[i] /\ \A j \in 1..(i - 1) : a[j] = b[j]

RECURSIVE EvalSql(_, _, _)
EvalSql(expr, row, ctx) ==
    CASE expr.kind = "column" -> <<row[expr.name]>>
      [] expr.kind \in {"constant", "parameter"} -> <<GetValue(expr, ctx)>>
      [] expr.kind = "tuple" ->
            [i \in 1..Len(expr.expressions) |->
                EvalSql(expr.expressions[i], row, ctx)[1]]
      [] expr.kind = "unOp" /\ expr.operator = "NOT" ->
            <<~EvalSql(expr.expression, row, ctx)[1]>>
      [] expr.kind = "binOp" ->
            LET l == EvalSql(expr.left, row, ctx)
                r == EvalSql(expr.right, row, ctx)
            IN CASE expr.operator = "=" -> <<l = r>>
                 [] expr.operator = "<" -> <<LexLT(l, r)>>
                 [] expr.operator = ">" -> <<LexLT(r, l)>>
                 [] expr.operator = "AND" -> <<l[1] /\ r[1]>>
                 [] expr.operator = "OR" -> <<l[1] \/ r[1]>>
                 [] expr.operator = "+" -> <<l[1] + r[1]>>

Matching(table, where, ctx) ==
    {r \in table : where = Undefined \/ EvalSql(where, r, ctx)[1]}

\* ORDER BY c1 d1, c2 d2, ...: a sorts before b
OrderBefore(a, b, orderBy) ==
    \E i \in 1..Len(orderBy) :
        /\ IF orderBy[i].direction = "asc"
              THEN a[orderBy[i].column] < b[orderBy[i].column]
              ELSE a[orderBy[i].column] > b[orderBy[i].column]
        /\ \A j \in 1..(i - 1) : a[orderBy[j].column] = b[orderBy[j].column]

RECURSIVE SortRows(_, _)
SortRows(S, orderBy) ==
    IF S = {} THEN <<>>
    ELSE LET m == CHOOSE x \in S : \A y \in S \ {x} : ~OrderBefore(y, x, orderBy)
         IN <<m>> \o SortRows(S \ {m}, orderBy)

Take(s, n) == SubSeq(s, 1, IF n < Len(s) THEN n ELSE Len(s))

Project(row, columns) ==
    [c \in {columns[i].name : i \in 1..Len(columns)} |-> row[c]]

\* stmt.all(...getParams(context)) of a prepared Select
prepareQueryAll(query, table, ctx) ==
    LET sorted == SortRows(Matching(table, query.where, ctx), query.orderBy)
        limited == Take(sorted, GetValue(query.limit, ctx))
    IN [i \in 1..Len(limited) |-> Project(limited[i], query.columns)]

\* stmt.get(...)["COUNT(*)"] of a prepared Count
prepareCount(query, table, ctx) == Cardinality(Matching(table, query.where, ctx))

(***************************************************************************)
(* Pagination planner: compileFindMany (Page.mts)                          *)
(***************************************************************************)
PrimaryKeyOrdered(primaryKey, orderBy) ==
    \A p \in 1..Len(primaryKey) :
        \E o \in 1..Len(orderBy) : orderBy[o].column = primaryKey[p]

DirectionsAgree(orderBy) ==
    \/ \A o \in 1..Len(orderBy) : orderBy[o].direction = "asc"
    \/ \A o \in 1..Len(orderBy) : orderBy[o].direction = "desc"

\* compileFindMany without its assertion on the directions
compileFindManyError_NoDirections(primaryKey, orderBy) ==
    IF ~PrimaryKeyOrdered(primaryKey, orderBy)
        THEN "orderBy must include all primary key columns"
    ELSE "none"

\* compileFindMany without its assertion on the primary key
compileFindManyError_NoPrimaryKey(primaryKey, orderBy) ==
    IF ~DirectionsAgree(orderBy)
        THEN "orderBy must be all ascending or all descending"
    ELSE "none"

\* the message of the assertion compileFindMany fails, "none" when it passes
compileFindManyError(primaryKey, orderBy) ==
    IF ~PrimaryKeyOrdered(primaryKey, orderBy)
        THEN "orderBy must include all primary key columns"
    ELSE IF ~DirectionsAgree(orderBy)
        THEN "orderBy must be all ascending or all descending"
    ELSE "none"

cursorCols(orderBy) == [i \in 1..Len(orderBy) |-> mkColumn(orderBy[i].column)]

mkCursorParams(orderBy, getCursor) ==
    mkTuple([i \in 1..Len(orderBy) |->
                mkParameter(<<getCursor, orderBy[i].column>>)])

FilterList(filter) == IF filter = Undefined THEN <<>> ELSE <<filter>>

InvertedOrderBy(orderBy) ==
    [i \in 1..Len(orderBy) |->
        [column |-> orderBy[i].column,
         direction |-> invertDirection(orderBy[i].direction)]]

loadHeadAst(filter, orderBy) ==
    mkSelect(cursorCols(orderBy), filter, orderBy, mkParameter(<<"limit">>))

loadTailAst(filter, orderBy) ==
    mkSelect(cursorCols(orderBy), filter, InvertedOrderBy(orderBy),
             mkParameter(<<"limit">>))

loadNextAst(filter, orderBy) ==
    mkSelect(cursorCols(orderBy),
             ands(FilterList(filter) \o
                  <<mkGT(mkTuple(cursorCols(orderBy)),
                         mkCursorParams(orderBy, "cursor"))>>),
             orderBy, mkParameter(<<"limit">>))

loadPreviousAst(filter, orderBy) ==
    mkSelect(cursorCols(orderBy),
             ands(FilterList(filter) \o
                  <<mkLT(mkTuple(cursorCols(orderBy)),
                         mkCursorParams(orderBy, "cursor"))>>),
             InvertedOrderBy(orderBy), mkParameter(<<"limit">>))

totalCountAst(filter) == mkCount(filter)

countAfterAst(filter, orderBy) ==
    mkCount(ands(FilterList(filter) \o
                 <<mkGT(mkTuple(cursorCols(orderBy)),
                        mkCursorParams(orderBy, "after"))>>))

countBeforeAst(filter, orderBy) ==
    mkCount(ands(FilterList(filter) \o
                 <<mkLT(mkTuple(cursorCols(orderBy)),
                        mkCursorParams(orderBy, "before"))>>))

compileFindMany(filter, orderBy) ==
    [loadFirst |-> loadHeadAst(filter, orderBy),
     loadLast |-> loadTailAst(filter, orderBy),
     loadNext |-> loadNextAst(filter, orderBy),
     loadPrev |-> loadPreviousAst(filter, orderBy),
     countTotal |-> totalCountAst(filter),
     countAfter |-> countAfterAst(filter, orderBy),
     countBefore |-> countBeforeAst(filter, orderBy)]

(***************************************************************************)
(* Storage adapter: BetterSqlite3Storage.prepareFindMany / findMany        *)
(***************************************************************************)
Reverse(s) == [i \in 1..Len(s) |-> s[Len(s) + 1 - i]]

loadForward(table, pageInput) ==
    LET q == compileFindMany(pageInput.filter, pageInput.orderBy)
    IN IF pageInput.after = Undefined
          THEN prepareQueryAll(q.loadFirst, table, [limit |-> pageInput.first])
          ELSE prepareQueryAll(q.loadNext, table,
                               [cursor |-> pageInput.after, limit |-> pageInput.first])

loadBackward(table, pageInput) ==
    LET q == compileFindMany(pageInput.filter, pageInput.orderBy)
    IN IF pageInput.before = Undefined
          THEN prepareQueryAll(q.loadLast, table, [limit |-> pageInput.last])
          ELSE prepareQueryAll(q.loadPrev, table,
                               [cursor |-> pageInput.before, limit |-> pageInput.last])

countAfter(table, pageInput, cursor) ==
    prepareCount(compileFindMany(pageInput.filter, pageInput.orderBy).countAfter,
                 table, [after |-> cursor])

countBefore(table, pageInput, cursor) ==
    prepareCount(compileFindMany(pageInput.filter, pageInput.orderBy).countBefore,
                 table, [before |-> cursor])

countTotal(table, pageInput) ==
    prepareCount(compileFindMany(pageInput.filter, pageInput.orderBy).countTotal,
                 table, Undefined)

\* findManyRows with the reversal of the backward load forgotten
findManyRows_NoReverse(table, pageInput) ==
    IF pageInput.kind = "forward"
        THEN loadForward(table, pageInput)
        ELSE loadBackward(table, pageInput)

\* rows of the page: a backward load is reversed back into orderBy direction
findManyRows(table, pageInput) ==
    IF pageInput.kind = "forward"
        THEN loadForward(table, pageInput)
        ELSE Reverse(loadBackward(table, pageInput))

findMany(table, pageInput) ==
    LET rs == findManyRows(table, pageInput)
        startCursor == IF Len(rs) > 0 THEN rs[1] ELSE Undefined
        endCursor == IF Len(rs) > 0 THEN rs[Len(rs)] ELSE Undefined
        rowCount == countTotal(table, pageInput)
        itemBeforeCount ==
            IF pageInput.kind = "forward" /\ pageInput.after = Undefined THEN 0
            ELSE IF Len(rs) > 0 THEN countBefore(table, pageInput, startCursor)
            ELSE rowCount
        itemAfterCount ==
            IF pageInput.kind = "backward" /\ pageInput.before = Undefined THEN 0
            ELSE IF Len(rs) > 0 THEN countAfter(table, pageInput, endCursor)
            ELSE rowCount
    IN [rows |-> rs, rowCount |-> rowCount,
        startCursor |-> startCursor, endCursor |-> endCursor,
        itemBeforeCount |-> itemBeforeCount, itemAfterCount |-> itemAfterCount]

(***************************************************************************)
(* PageSpec: one findMany call, or the caller's fetch-all loop, on a table *)
(* of the composite schema (id, sub_id, age; primary key (id, sub_id)).    *)
(***************************************************************************)
PgPrimaryKey == <<"id", "sub_id">>

PgKeys == (1..MaxId) \X SubIds

\* every table content: each primary key is absent or holds one row
PgTables ==
    {{[id |-> k[1], sub_id |-> k[2], age |-> f[k]] : k \in DOMAIN f} :
        f \in UNION {[D -> Ages] : D \in SUBSET PgKeys}}

PgCursors == {[id |-> k[1], sub_id |-> k[2]] : k \in PgKeys}

PgOrderBys ==
    {<<[column |-> "id", direction |-> d], [column |-> "sub_id", direction |-> d]>> :
        d \in {"asc", "desc"}}
    \cup {<<[column |-> "id", direction |-> "asc"],
            [column |-> "sub_id", direction |-> "desc"]>>,
          <<[column |-> "id", direction |-> "asc"]>>,
          <<[column |-> "id", direction |-> "asc"],
            [column |-> "age", direction |-> "desc"]>>}

PgFilters == {Undefined, mkEq(mkColumn("age"), mkConstant(25))}

PgPageInits ==
    {[kind |-> "forward", after |-> c, first |-> n, orderBy |-> o, filter |-> f] :
        c \in PgCursors \cup {Undefined}, n \in 0..MaxLimit,
        o \in PgOrderBys, f \in PgFilters}
    \cup
    {[kind |-> "backward", before |-> c, last |-> n, orderBy |-> o, filter |-> f] :
        c \in PgCursors \cup {Undefined}, n \in 0..MaxLimit,
        o \in PgOrderBys, f \in PgFilters}

NoPage == [none |-> TRUE]

IterIdle == [state |-> "idle", fetched |-> <<>>]

(* partitionByKey called on a fresh Subject, nobody subscribed yet: no      *)
(* connection of groupedObservables$, refCount 0 (lines 161-162).  The      *)
(* streamSelector is, per key: the default identity; take(1); () => EMPTY;  *)
(* catchError(() => EMPTY) ("swallow"); or take(1) followed by              *)
(* switchMap(() => inner$) ("inner"), which leaves the source after the     *)
(* first value and completes when inner$ does, possibly never.              *)
PkSelectors == {"identity", "take1", "EMPTY", "swallow", "inner"}

PkFresh(sel) ==
    [sel |-> sel,            \* streamSelector, per key
     up |-> "open",          \* the upstream Subject: open / completed / errored
     sent |-> <<>>,          \* the key of every value the upstream emitted, in order
     conn |-> FALSE,         \* share: groupedObservables$ is connected to the upstream
     latest |-> Undefined,   \* share: the change of the emission its ReplaySubject(1) holds
     emitted |-> <<>>,       \* the change of every emission of groupedObservables$ so far
     sourceCompleted |-> FALSE,
     groups |-> [k \in Keys |-> Null],
     refCount |-> 0,
     sub |-> FALSE,          \* `sub` of incRefcount is subscribed to groupedObservables$
     goObs |-> <<>>,         \* the other observers of groupedObservables$, in subscription order
     ss |-> <<>>,            \* subscribers of get_substream(k)
     ks |-> <<>>,            \* subscribers of the key-change stream
     last |-> [op |-> "new", arg |-> 0]]

PkIdle == PkFresh([k \in Keys |-> "identity"])

\* nothing compiled or evaluated yet
CxIdle == [op |-> "new"]

\* the reactive Table right after construction
TbInit ==
    /\ storage = [k \in Keys |-> Null]
    /\ rows = [k \in Keys |-> 0]
    /\ dyn = <<>>
    /\ pipes = <<>>
    /\ subs = <<>>
    /\ groups = [k \in Keys |-> Null]
    /\ refCount = 0
    /\ published = <<>>
    /\ lastCall = [op |-> "new", key |-> 0, arg |-> Undefined, raised |-> FALSE]
    /\ pk = PkIdle
    /\ cx = CxIdle

PgInit ==
    /\ pgRows \in PgTables
    /\ pgInput \in PgPageInits
    /\ pgPage = NoPage
    /\ pgError = "none"
    /\ iter = IterIdle
    /\ TbInit

PgFresh == pgPage = NoPage /\ pgError = "none" /\ iter.state = "idle"

\* storage.findMany(pgInput) returns a Page
FindManyReturns ==
    /\ PgFresh
    /\ compileFindManyError(PgPrimaryKey, pgInput.orderBy) = "none"
    /\ pgPage' = findMany(pgRows, pgInput)
    /\ UNCHANGED <<pgRows, pgInput, pgError, iter, tbVars, pkVars, cxVars>>

\* storage.findMany(pgInput) raises a planner assertion
FindManyRaises ==
    /\ PgFresh
    /\ compileFindManyError(PgPrimaryKey, pgInput.orderBy) # "none"
    /\ pgError' = compileFindManyError(PgPrimaryKey, pgInput.orderBy)
    /\ UNCHANGED <<pgRows, pgInput, pgPage, iter, tbVars, pkVars, cxVars>>

\* one round of: page = findMany({forward, first: pageSize, after?});
\* if no rows, stop; collect; if short page, stop; after = last row
IterStep(after) ==
    LET page == findMany(pgRows, [pgInput EXCEPT !.after = after])
        fetched == iter.fetched \o page.rows
    IN iter' = [state |-> IF Len(page.rows) < pgInput.first THEN "done" ELSE "running",
                fetched |-> fetched]

IterFirst ==
    /\ PgFresh
    /\ pgInput.kind = "forward" /\ pgInput.after = Undefined /\ pgInput.first >= 1
    /\ compileFindManyError(PgPrimaryKey, pgInput.orderBy) = "none"
    /\ IterStep(Undefined)
    /\ UNCHANGED <<pgRows, pgInput, pgPage, pgError, tbVars, pkVars, cxVars>>

IterNext ==
    /\ iter.state = "running"
    /\ IterStep(iter.fetched[Len(iter.fetched)])
    /\ UNCHANGED <<pgRows, pgInput, pgPage, pgError, tbVars, pkVars, cxVars>>

PgNext == FindManyReturns \/ FindManyRaises \/ IterFirst \/ IterNext

PageSpec == PgInit /\ [][PgNext]_vars

\* the full scan of the filtered rows in orderBy order, as cursors
FullScan(table, pageInput) ==
    LET sorted == SortRows(Matching(table, pageInput.filter, Undefined), pageInput.orderBy)
    IN [i \in 1..Len(sorted) |-> Project(sorted[i], cursorCols(pageInput.orderBy))]

LastN(s, n) == SubSeq(s, IF Len(s) > n THEN Len(s) - n + 1 ELSE 1, Len(s))

\* the part of the full scan that lies before cursor c in orderBy order
ScanBefore(table, pageInput, c) ==
    SelectSeq(FullScan(table, pageInput),
              LAMBDA r : OrderBefore(r, c, pageInput.orderBy))

(***************************************************************************)
(* Claims on pagination (checked under PageSpec)                           *)
(***************************************************************************)

\* C3: pagination completeness - the fetch-all loop (first page without a
\* cursor, then after = last row of the previous page, until a short page)
\* ends having visited every matching row exactly once, in orderBy order,
\* for ascending and for descending orderBy.
C3_PaginationComplete ==
    iter.state = "done" => iter.fetched = FullScan(pgRows, pgInput)

\* C4: page accounting - itemBeforeCount + rows returned + itemAfterCount
\* equals rowCount, the number of stored rows matching the filter, for
\* every Page findMany returns.
C4_PageAccounting ==
    pgPage # NoPage =>
        /\ pgPage.rowCount = Cardinality(Matching(pgRows, pgInput.filter, Undefined))
        /\ pgPage.itemBeforeCount + Len(pgPage.rows) + pgPage.itemAfterCount
              = pgPage.rowCount

\* C5: forward/backward symmetry - a backward page without cursor holds the
\* last n rows of the full scan, a backward page before cursor c holds the n
\* rows immediately preceding c, both in orderBy order.
C5_BackwardSymmetry ==
    (pgPage # NoPage /\ pgInput.kind = "backward") =>
        pgPage.rows =
            IF pgInput.before = Undefined
                THEN LastN(FullScan(pgRows, pgInput), pgInput.last)
                ELSE LastN(ScanBefore(pgRows, pgInput, pgInput.before), pgInput.last)

CursorOf(row, orderBy) == [i \in 1..Len(orderBy) |-> row[orderBy[i].column]]

\* C32: findMany with an orderBy that omits a primary-key column raises
\* 'orderBy must include all primary key columns' before any query is
\* executed; so whenever a Page is returned, any two distinct stored rows
\* differ in the cursor tuple and one sorts strictly before the other.
C32_PrimaryKeyOrdered ==
    [][/\ ~PrimaryKeyOrdered(PgPrimaryKey, pgInput.orderBy) =>
              /\ pgError' = "orderBy must include all primary key columns"
              /\ pgPage' = NoPage /\ iter' = iter
       /\ (pgPage' # NoPage \/ iter'.state # "idle") =>
              \A a, b \in pgRows :
                  a # b =>
                     /\ CursorOf(a, pgInput.orderBy) # CursorOf(b, pgInput.orderBy)
                     /\ OrderBefore(a, b, pgInput.orderBy)
                            # OrderBefore(b, a, pgInput.orderBy)
      ]_vars

\* C32 witness: a call with [id asc] on a table holding two rows of the same
\* id raised the assertion
C32_Witness ==
    /\ ~PrimaryKeyOrdered(PgPrimaryKey, pgInput.orderBy)
    /\ pgError = "orderBy must include all primary key columns"
    /\ pgPage = NoPage
    /\ \E a, b \in pgRows : a # b /\ a.id = b.id

(***************************************************************************)
(* Reactive Table.                                                         *)
(*                                                                         *)
(* Storage of the User schema: the statements the Table and the adapter    *)
(* prepare (INSERT, UPDATE ... WHERE pk, DELETE ... WHERE pk, SELECT by pk) *)
(***************************************************************************)
Threw == [threw |-> TRUE]

TableRows == {[id |-> k, name |-> n] : k \in Keys, n \in Names}

\* the non-empty sets of changes an update call passes
Changes == {[name |-> n] : n \in Names}

\* changes with no column: {}
NoChanges == <<>>

\* {...a, ...b}
Spread(a, b) == IF a = Null THEN b ELSE b @@ a

\* INSERT raises on a primary-key conflict
storageInsert(st, row) ==
    IF st[row.id] # Null
        THEN [raised |-> TRUE, storage |-> st]
        ELSE [raised |-> FALSE, storage |-> [st EXCEPT ![row.id] = row]]

\* UPDATE ... WHERE pk = ?: no row, no change, no error
storageUpdate(st, key, changes) ==
    [st EXCEPT ![key] = IF @ = Null THEN Null ELSE changes @@ @]

storageDelete(st, key) == [st EXCEPT ![key] = Null]

storageFindUnique(st, key) == st[key]

StoredRows(st) == {st[k] : k \in Keys} \ {Null}

(***************************************************************************)
(* TableEvent and the key tuple of an event (Table.getKeyTuple)            *)
(***************************************************************************)
InsertEvent(row) == [kind |-> "insert", row |-> row]

UpdateEvent(key, changes) == [kind |-> "update", key |-> key, row |-> changes]

DeleteEvent(key) == [kind |-> "delete", key |-> key]

getKeyTuple(event) == IF event.kind = "insert" THEN event.row.id ELSE event.key

(***************************************************************************)
(* Dynamic (core/Dynamic.mts): read                                        *)
(***************************************************************************)
\* read without the check of the subscription
read_NoCheck(d) == d.value

read(d) == IF d.closed THEN Threw ELSE d.value

(***************************************************************************)
(* The reactive state as one record w, threaded through a call:            *)
(*   dyn[h]   = [pipe, value, closed, disconnected, initial, joined]       *)
(*   pipes[p] = [kind, key, row, filter, observers, connected, attached,   *)
(*               timer, emitted, last]                                     *)
(*   subs[s]  = [dyn, status, since, joined, log]                          *)
(***************************************************************************)
World == [dyn |-> dyn, subs |-> subs, pipes |-> pipes, groups |-> groups,
          refCount |-> refCount, rows |-> rows]

DynObserver(h) == [t |-> "dyn", i |-> h]

SubObserver(s) == [t |-> "sub", i |-> s]

\* Notify with the Dynamic's own callback not storing newValue
Notify_KeepsValue(w, o, item) ==
    IF o.t = "dyn" THEN w
    ELSE [w EXCEPT !.subs[o.i].log =
            Append(@, [seq |-> item.seq, delta |-> item.delta,
                       newValue |-> item.newValue,
                       read |-> read(w.dyn[w.subs[o.i].dyn]),
                       stored |-> item.stored])]

\* Notify with the callbacks of callers put off until after the call
Notify_Deferred(w, o, item) ==
    IF o.t = "dyn" THEN [w EXCEPT !.dyn[o.i].value = item.newValue] ELSE w

\* one observer of a share subject receives item = [seq, delta, newValue, stored]:
\* createDynamic's own subscription stores newValue; a caller's callback is
\* recorded with what read() of its Dynamic returns at that moment
Notify(w, o, item) ==
    IF o.t = "dyn"
        THEN [w EXCEPT !.dyn[o.i].value = item.newValue]
        ELSE [w EXCEPT !.subs[o.i].log =
                Append(@, [seq |-> item.seq, delta |-> item.delta,
                           newValue |-> item.newValue,
                           read |-> read(w.dyn[w.subs[o.i].dyn]),
                           stored |-> item.stored])]

\* Subject.next notifying the first observer alone
Deliver_FirstOnly(w, obs, item) ==
    IF obs = <<>> THEN w ELSE Notify(w, Head(obs), item)

\* Subject.next: the observers are notified in subscription order
RECURSIVE Deliver(_, _, _)
Deliver(w, obs, item) ==
    IF obs = <<>> THEN w
    ELSE Deliver(Notify(w, Head(obs), item), Tail(obs), item)

\* the shared observable emits item; emitted and last keep the number of
\* items it has emitted and the newValue of the latest
Emit(w, p, item) ==
    [Deliver(w, w.pipes[p].observers, item) EXCEPT
        !.pipes[p].emitted = @ + 1,
        !.pipes[p].last = item.newValue]

\* findUnique's map((e) => [void 0, newValue]); row is the closure's row
rowItem(row, g, store) ==
    [seq |-> g.seq, delta |-> Undefined,
     newValue |-> CASE g.event.kind = "insert" -> g.event.row
                    [] g.event.kind = "update" -> Spread(row, g.event.row)
                    [] g.event.kind = "delete" -> Null,
     stored |-> storageFindUnique(store, getKeyTuple(g.event))]

\* share(): the first subscriber connects the source.  A row pipe subscribes
\* getRowEvent(key): it attaches to the key's group when the group exists
\* (incRefcount; the group replays its last value) and waits for it otherwise
ConnectSource(w, p, store) ==
    LET pipe == w.pipes[p]
    IN IF pipe.kind = "page" THEN [w EXCEPT !.pipes[p].connected = TRUE]
       ELSE IF w.groups[pipe.key] # Null
            THEN Emit([w EXCEPT !.pipes[p].connected = TRUE,
                                !.pipes[p].attached = TRUE,
                                !.refCount = @ + 1],
                      p, rowItem(pipe.row, w.groups[pipe.key], store))
       ELSE [w EXCEPT !.pipes[p].connected = TRUE]

\* share(): subscribe - join the subject, cancel a pending reset, connect
ShareSubscribe(w, p, o, store) ==
    LET w1 == [w EXCEPT !.pipes[p].observers = Append(@, o),
                        !.pipes[p].timer = FALSE]
    IN IF w1.pipes[p].connected THEN w1 ELSE ConnectSource(w1, p, store)

\* share(): unsubscribe - at refcount zero resetOnRefCountZero starts timer(10s)
ShareUnsubscribe(w, p, o) ==
    LET obs == SelectSeq(w.pipes[p].observers, LAMBDA x : x # o)
    IN [w EXCEPT !.pipes[p].observers = obs,
                 !.pipes[p].timer = (obs = <<>>)]

\* the source of a share errors: the share resets, every observer is errored
\* and leaves, and the last one leaving starts the reset timer
ErrorObserver(w, o) ==
    IF o.t = "dyn" THEN [w EXCEPT !.dyn[o.i].closed = TRUE]
    ELSE [w EXCEPT !.subs[o.i].status = "errored"]

RECURSIVE ErrorAll(_, _)
ErrorAll(w, obs) ==
    IF obs = <<>> THEN w ELSE ErrorAll(ErrorObserver(w, Head(obs)), Tail(obs))

ShareError(w, p) ==
    [ErrorAll(w, w.pipes[p].observers) EXCEPT
        !.pipes[p].observers = <<>>,
        !.pipes[p].connected = FALSE,
        !.pipes[p].timer = TRUE]

(***************************************************************************)
(* rsqlExpressionToFilterFn: JavaScript values are tagged so that values   *)
(* of different types can be compared                                      *)
(***************************************************************************)
JsUndefined == [t |-> "undefined"]

JsThrew == [t |-> "threw"]

JsValue(v) == [t |-> "value", v |-> v]

JsBool(b) == [t |-> "bool", v |-> b]

\* NaN, and a number that is not an integer (kept as its operands)
JsNaN == [t |-> "nan"]

JsFraction(operator, l, r) == [t |-> "fraction", v |-> <<operator, l, r>>]

JsStrictEq(l, r) == l.t = r.t /\ l.t # "nan" /\ (l.t = "undefined" \/ l.v = r.v)

\* Number(x) of a number, a boolean or undefined
ToNumber(x) ==
    CASE x.t = "bool" -> JsValue(IF x.v THEN 1 ELSE 0)
      [] x.t = "undefined" -> JsNaN
      [] OTHER -> x

\* left < right and left <= right on numbers (false when either is NaN)
JsLess(left, right) ==
    LET l == ToNumber(left)
        r == ToNumber(right)
    IN l.t = "value" /\ r.t = "value" /\ l.v < r.v

JsLessEq(left, right) ==
    LET l == ToNumber(left)
        r == ToNumber(right)
    IN l.t = "value" /\ r.t = "value" /\ l.v <= r.v

\* left op right for the arithmetic operators of the switch, on numbers
JsArith(operator, left, right) ==
    LET l == ToNumber(left)
        r == ToNumber(right)
    IN IF l.t # "value" \/ r.t # "value" THEN JsNaN
       ELSE CASE operator = "+" -> JsValue(l.v + r.v)
              [] operator = "-" -> JsValue(l.v - r.v)
              [] operator = "*" -> JsValue(l.v * r.v)
              [] operator = "/" ->
                    IF r.v # 0 /\ l.v % r.v = 0 THEN JsValue(l.v \div r.v)
                    ELSE JsFraction("/", l.v, r.v)
              [] operator = "^" ->
                    IF r.v >= 0 THEN JsValue(l.v ^ r.v)
                    ELSE JsFraction("^", l.v, r.v)

RECURSIVE evalExpr(_, _)
evalExpr(expr, row) ==
    CASE expr.kind = "column" ->
            IF row = Null THEN JsThrew
            ELSE IF expr.name \in DOMAIN row THEN JsValue(row[expr.name])
            ELSE JsUndefined
      [] expr.kind = "constant" -> JsValue(expr.value)
      [] expr.kind = "binOp" ->
            LET left == evalExpr(expr.left, row)
                right == evalExpr(expr.right, row)
            IN IF left = JsThrew \/ right = JsThrew THEN JsThrew
               ELSE CASE expr.operator = "=" -> JsBool(JsStrictEq(left, right))
                      [] expr.operator = "!=" -> JsBool(~JsStrictEq(left, right))
                      [] expr.operator = "<" -> JsBool(JsLess(left, right))
                      [] expr.operator = "<=" -> JsBool(JsLessEq(left, right))
                      [] expr.operator = ">" -> JsBool(JsLess(right, left))
                      [] expr.operator = ">=" -> JsBool(JsLessEq(right, left))
                      [] expr.operator \in {"+", "-", "*", "/", "^"} ->
                            JsArith(expr.operator, left, right)
                      [] OTHER -> JsThrew
      [] expr.kind = "unOp" ->
            LET val == evalExpr(expr.expression, row)
            IN IF val = JsThrew THEN JsThrew
               ELSE CASE expr.operator = "+" -> ToNumber(val)
                      [] expr.operator = "-" -> JsArith("-", JsValue(0), val)
                      [] OTHER -> JsThrew
      [] OTHER -> JsThrew

\* (row) => !!evalExpr(condition, row), "throw" when the evaluation throws
rsqlExpressionToFilterFn(condition, row) ==
    LET v == evalExpr(condition, row)
    IN IF v = JsThrew THEN "throw"
       ELSE IF v.t = "bool" /\ v.v THEN "true"
       ELSE IF v.t \in {"value", "fraction"} THEN "true"
       ELSE "false"

\* pageInput.filter ? rsqlExpressionToFilterFn(pageInput.filter) : () => true
filter(pageFilter, row) ==
    IF pageFilter = Undefined THEN "true"
    ELSE rsqlExpressionToFilterFn(pageFilter, row)

\* Table.getRow: the cached Dynamic object when the key has one, else the
\* stored row
getRow(w, store, key) ==
    IF w.rows[key] # 0 THEN [dynamic |-> w.rows[key]]
    ELSE storageFindUnique(store, key)

(***************************************************************************)
(* partitionByKey: the upstream is subscribed while somebody listens - a   *)
(* key's subject has a subscriber or a getRowEvent(key) subscriber waits   *)
(* for its group                                                           *)
(***************************************************************************)
GroupedAlive(w) ==
    \/ w.refCount > 0
    \/ \E p \in 1..Len(w.pipes) :
            w.pipes[p].kind = "row" /\ w.pipes[p].connected /\ ~w.pipes[p].attached

\* the upstream is unsubscribed and the groups are dropped when nobody listens
teardown(w) ==
    IF GroupedAlive(w) THEN w ELSE [w EXCEPT !.groups = [k \in Keys |-> Null]]

\* a key's subject delivers to everybody: the key of the event ignored
rowPipeHit_AnyKey(pipe, g) == pipe.kind = "row" /\ pipe.connected

\* the event g of key k goes to the subscribers of getRowEvent(k) only
rowPipeHit(pipe, g) ==
    pipe.kind = "row" /\ pipe.connected /\ pipe.key = getKeyTuple(g.event)

\* the connected row pipes of the event's key, from pipe p on, receive g (a
\* waiting one attaches to the group first)
RECURSIVE RouteRow(_, _, _, _)
RouteRow(w, p, g, store) ==
    IF p > Len(w.pipes) THEN w
    ELSE LET pipe == w.pipes[p]
             hit == rowPipeHit(pipe, g)
             w1 == IF hit /\ ~pipe.attached
                      THEN [w EXCEPT !.pipes[p].attached = TRUE, !.refCount = @ + 1]
                      ELSE w
         IN RouteRow(IF hit THEN Emit(w1, p, rowItem(pipe.row, g, store)) ELSE w1,
                     p + 1, g, store)

\* the upstream next handler: the event becomes the last value of its key's
\* group and goes to the group's subscribers
partitionNext(w, g, store) ==
    IF ~GroupedAlive(w) THEN w
    ELSE RouteRow([w EXCEPT !.groups[getKeyTuple(g.event)] = g], 1, g, store)

\* findMany's mergeMap callback for one connected page pipe
pageItem(w, p, g, store) ==
    LET pipe == w.pipes[p]
        key == getKeyTuple(g.event)
        f == filter(pipe.filter, getRow(w, store, key))
        item(delta) == [seq |-> g.seq, delta |-> delta, newValue |-> pipe.row,
                        stored |-> storageFindUnique(store, key)]
    IN IF f = "throw" THEN ShareError(w, p)
       ELSE IF f = "false" THEN w
       ELSE IF g.event.kind = "insert"
            THEN Emit(w, p, item(<<[kind |-> "add", row |-> g.event.row]>>))
       ELSE IF g.event.kind = "delete"
            THEN Emit(w, p, item(<<[kind |-> "remove", key |-> g.event.key]>>))
       ELSE w

RECURSIVE RoutePage(_, _, _, _)
RoutePage(w, p, g, store) ==
    IF p > Len(w.pipes) THEN w
    ELSE RoutePage(IF w.pipes[p].kind = "page" /\ w.pipes[p].connected
                      THEN pageItem(w, p, g, store) ELSE w,
                   p + 1, g, store)

\* events.next([e]): every subscriber of events handles e before next returns
eventsNext(w, g, store) == RoutePage(partitionNext(w, g, store), 1, g, store)

\* the batch published twice
runThenPublish_Twice(w, before, after, g) ==
    eventsNext(eventsNext(w, g, after), g, after)

\* the batch published while the statement has not run yet
runThenPublish_PublishFirst(w, before, after, g) == eventsNext(w, g, before)

\* Table.insert/update/delete: the prepared statement has run (before ->
\* after), then the event batch is published
runThenPublish(w, before, after, g) == eventsNext(w, g, after)

(***************************************************************************)
(* Spec: the calls a program makes on one Table of the User schema and on  *)
(* the Dynamics it hands out, and the reset timers of the shares           *)
(***************************************************************************)
\* the calls that create a Dynamic, a subscription or a batch are counted
Within(n, max) ==
    n < max /\ Len(dyn) + Len(subs) + Len(published) < MaxCalls

Commit(w) ==
    LET w1 == teardown(w)
    IN /\ dyn' = w1.dyn
       /\ subs' = w1.subs
       /\ pipes' = w1.pipes
       /\ groups' = w1.groups
       /\ refCount' = w1.refCount
       /\ rows' = w1.rows

\* the call just made: its name, the key or Dynamic it was made on, the
\* changes or mutation list it was given (Undefined for the other calls) and
\* whether it threw
CalledWith(op, key, arg, raised) ==
    lastCall' = [op |-> op, key |-> key, arg |-> arg, raised |-> raised]

Called(op, key, raised) == CalledWith(op, key, Undefined, raised)

\* a call on the Dynamic or key `key` throws
RaisesWith(op, key, arg) ==
    /\ CalledWith(op, key, arg, TRUE)
    /\ UNCHANGED <<pgVars, pkVars, cxVars, storage, rows, dyn, pipes, subs, groups, refCount, published>>

RaisesOn(op, key) ==
    /\ Called(op, key, TRUE)
    /\ UNCHANGED <<pgVars, pkVars, cxVars, storage, rows, dyn, pipes, subs, groups, refCount, published>>

Raises(op) == RaisesOn(op, 0)

\* a mutation whose statement succeeded: storage is `after`, one batch [e];
\* published keeps the key of every batch
Mutates(op, key, after, e) ==
    LET g == [event |-> e, seq |-> Len(published) + 1]
    IN /\ storage' = after
       /\ published' = Append(published, key)
       /\ Commit(runThenPublish(World, storage, after, g))
       /\ CalledWith(op, key, IF e.kind = "update" THEN e.row ELSE Undefined, FALSE)
       /\ UNCHANGED <<pgVars, pkVars, cxVars>>

\* an insert that publishes its event whether or not the statement threw
TableInsert_PublishAnyway(row) ==
    /\ Within(Len(published), MaxEvents)
    /\ LET r == storageInsert(storage, row)
           g == [event |-> InsertEvent(row), seq |-> Len(published) + 1]
       IN /\ storage' = r.storage
          /\ published' = Append(published, row.id)
          /\ Commit(runThenPublish(World, storage, r.storage, g))
          /\ Called("insert", row.id, r.raised)
          /\ UNCHANGED <<pgVars, pkVars, cxVars>>

TableInsert(row) ==
    /\ Within(Len(published), MaxEvents)
    /\ LET r == storageInsert(storage, row)
       IN IF r.raised THEN RaisesOn("insert", row.id)
          ELSE Mutates("insert", row.id, r.storage, InsertEvent(row))

\* assert.fail("Not implemented")
TableUpsert(row) ==
    /\ Within(Len(published), MaxEvents)
    /\ RaisesWith("upsert", row.id, row)

\* the statement is compiled and prepared on every call; with no column it
\* reads UPDATE User SET  WHERE (id) = (?), which database.prepare rejects
TableUpdate(key, changes) ==
    /\ Within(Len(published), MaxEvents)
    /\ IF DOMAIN changes = {}
          THEN RaisesWith("update", key, changes)
          ELSE Mutates("update", key, storageUpdate(storage, key, changes),
                       UpdateEvent(key, changes))

TableDelete(key) ==
    /\ Within(Len(published), MaxEvents)
    /\ Mutates("delete", key, storageDelete(storage, key), DeleteEvent(key))

NewPipe(kind, key, row, pageFilter) ==
    [kind |-> kind, key |-> key, row |-> row, filter |-> pageFilter,
     observers |-> <<>>, connected |-> FALSE, attached |-> FALSE, timer |-> FALSE,
     emitted |-> 0, last |-> Undefined]

\* createDynamic(initialValue, updated): the Dynamic subscribes updated;
\* initial and joined keep v0 and the number of items updated had emitted
createDynamic(w, initialValue, p, store) ==
    ShareSubscribe([w EXCEPT !.dyn = Append(@, [pipe |-> p, value |-> initialValue,
                                                closed |-> FALSE,
                                                disconnected |-> FALSE,
                                                initial |-> initialValue,
                                                joined |-> w.pipes[p].emitted])],
                   p, DynObserver(Len(w.dyn) + 1), store)

\* fork handing out the value the origin started with
fork_Initial(w, h, store) == createDynamic(w, w.dyn[h].initial, w.dyn[h].pipe, store)

\* fork(): createDynamic(value, updated)
fork(w, h, store) == createDynamic(w, w.dyn[h].value, w.dyn[h].pipe, store)

Returns(op, key, w) ==
    /\ Commit(w)
    /\ Called(op, key, FALSE)
    /\ UNCHANGED <<pgVars, pkVars, cxVars, storage, published>>

TableFindUnique(key) ==
    /\ Within(Len(dyn), MaxDyn)
    /\ IF rows[key] # 0
          THEN IF dyn[rows[key]].closed THEN Raises("findUnique")
               ELSE Returns("findUnique", key, fork(World, rows[key], storage))
          ELSE LET row == storageFindUnique(storage, key)
                   w1 == [World EXCEPT
                            !.pipes = Append(@, NewPipe("row", key, row, Undefined)),
                            !.rows[key] = Len(dyn) + 1]
               IN Returns("findUnique", key,
                          createDynamic(w1, row, Len(pipes) + 1, storage))

TbPageInput(pageFilter) ==
    [kind |-> "forward", after |-> Undefined, first |-> MaxLimit,
     orderBy |-> <<[column |-> "id", direction |-> "asc"]>>, filter |-> pageFilter]

TbFilters == {Undefined, mkEq(mkColumn("name"), mkConstant("a"))}

TableFindMany(pageFilter) ==
    /\ Within(Len(dyn), MaxDyn)
    /\ LET page == findMany(StoredRows(storage), TbPageInput(pageFilter))
           w1 == [World EXCEPT
                    !.pipes = Append(@, NewPipe("page", 0, page, pageFilter))]
       IN Returns("findMany", 0, createDynamic(w1, page, Len(pipes) + 1, storage))

DynFork(h) ==
    /\ Within(Len(dyn), MaxDyn)
    /\ IF dyn[h].closed THEN RaisesOn("fork", h)
       ELSE Returns("fork", h, fork(World, h, storage))

\* disconnect(): subscription.unsubscribe(); disconnect$.next() completes the
\* updated subscriptions made through this Dynamic; disconnect$.complete().
\* A repeated call finds the subscription closed and disconnect$ stopped.
\* disconnect ending every subscription of the upstream
Leaves_All(w, h, o) == TRUE

Leaves(w, h, o) ==
    o = DynObserver(h) \/ (o.t = "sub" /\ w.subs[o.i].dyn = h)

disconnect(w, h) ==
    LET p == w.dyn[h].pipe
        obs == w.pipes[p].observers
        left == SelectSeq(obs, LAMBDA o : ~Leaves(w, h, o))
        w1 == [w EXCEPT
                 !.dyn[h].closed = TRUE,
                 !.dyn[h].disconnected = TRUE,
                 !.subs = MapSeq(w.subs, LAMBDA i, s :
                            IF s.dyn = h /\ s.status = "active"
                                THEN [s EXCEPT !.status = "completed"]
                                ELSE s)]
    IN IF w.dyn[h].disconnected THEN w
       ELSE IF left = obs THEN w1
       ELSE [w1 EXCEPT !.pipes[p].observers = left,
                       !.pipes[p].timer = (left = <<>>)]

DynDisconnect(h) == Returns("disconnect", h, disconnect(World, h))

\* d.updated.subscribe(callback): map, takeUntil(disconnect$) - a completed
\* disconnect$ does not end the new subscription
Subscribe(h) ==
    /\ Within(Len(subs), MaxSubs)
    /\ LET w1 == [World EXCEPT
                    !.subs = Append(@, [dyn |-> h, status |-> "active",
                                        since |-> Len(published),
                                        joined |-> pipes[dyn[h].pipe].emitted,
                                        log |-> <<>>])]
       IN Returns("subscribe", 0,
                  ShareSubscribe(w1, dyn[h].pipe, SubObserver(Len(subs) + 1), storage))

Unsubscribe(s) ==
    /\ subs[s].status = "active"
    /\ Returns("unsubscribe", 0,
               [ShareUnsubscribe(World, dyn[subs[s].dyn].pipe, SubObserver(s))
                    EXCEPT !.subs[s].status = "unsubscribed"])

\* timer(10 * 1000) of resetOnRefCountZero fires: the tap runs (findUnique:
\* this.rows.delete(keyTuple)) and the share disconnects from its source
resetOnRefCountZero(w, p) ==
    LET pipe == w.pipes[p]
    IN [w EXCEPT !.pipes[p].timer = FALSE,
                 !.pipes[p].connected = FALSE,
                 !.pipes[p].attached = FALSE,
                 !.refCount = IF pipe.attached THEN @ - 1 ELSE @,
                 !.rows = IF pipe.kind = "row" THEN [@ EXCEPT ![pipe.key] = 0] ELSE @]

TimerFires(p) ==
    /\ pipes[p].timer
    /\ Returns("timer", 0, resetOnRefCountZero(World, p))

Init ==
    /\ pgRows = {}
    /\ pgInput = TbPageInput(Undefined)
    /\ pgPage = NoPage
    /\ pgError = "none"
    /\ iter = IterIdle
    /\ TbInit

Next ==
    \/ \E row \in TableRows : TableInsert(row)
    \/ \E row \in TableRows : TableUpsert(row)
    \/ \E key \in Keys, changes \in Changes \cup {NoChanges} : TableUpdate(key, changes)
    \/ \E key \in Keys : TableDelete(key)
    \/ \E key \in Keys : TableFindUnique(key)
    \/ \E pageFilter \in TbFilters : TableFindMany(pageFilter)
    \/ \E h \in DOMAIN dyn : DynFork(h)
    \/ \E h \in DOMAIN dyn : DynDisconnect(h)
    \/ \E h \in DOMAIN dyn : Subscribe(h)
    \/ \E s \in DOMAIN subs : Unsubscribe(s)
    \/ \E p \in DOMAIN pipes : TimerFires(p)

Spec == Init /\ [][Next]_vars

(***************************************************************************)
(* Claims on the reactive Table (checked under Spec)                       *)
(***************************************************************************)
Mutations == {"insert", "update", "delete"}

Mutated == lastCall.op \in Mutations /\ ~lastCall.raised

\* the Dynamics of findUnique(k) and their forks
RowDynamic(h) == pipes[dyn[h].pipe].kind = "row"

KeyOf(h) == pipes[dyn[h].pipe].key

\* a subscription of `updated` that is live on a connected Dynamic
LiveOn(s, h) == subs[s].dyn = h /\ subs[s].status = "active" /\ ~dyn[h].closed

\* C1: Dynamic fold - after every call, read() on every still-connected
\* Dynamic obtained from findUnique(k) equals what a fresh storage
\* findUnique(k) returns (the full row, or null when the row is absent).
C1_DynamicFold ==
    \A h \in DOMAIN dyn :
        (RowDynamic(h) /\ ~dyn[h].closed) =>
            read(dyn[h]) = storageFindUnique(storage, KeyOf(h))

\* C2: at-most-once delta with key isolation - on every successful
\* insert/update/delete of key k, each subscriber of `updated` on a connected
\* findUnique(k) Dynamic receives exactly one delta, of that mutation, and no
\* subscriber or snapshot of a Dynamic for another key changes.
C2_OneDeltaKeyIsolation ==
    [][(lastCall'.op \in Mutations /\ ~lastCall'.raised) =>
        /\ \A s \in DOMAIN subs :
              LET h == subs[s].dyn
              IN (RowDynamic(h) /\ LiveOn(s, h)) =>
                    IF KeyOf(h) = lastCall'.key
                        THEN /\ Len(subs'[s].log) = Len(subs[s].log) + 1
                             /\ subs'[s].log[Len(subs'[s].log)].seq = Len(published')
                             /\ SubSeq(subs'[s].log, 1, Len(subs[s].log)) = subs[s].log
                        ELSE subs'[s].log = subs[s].log
        /\ \A h \in DOMAIN dyn :
              (RowDynamic(h) /\ KeyOf(h) # lastCall'.key) =>
                    dyn'[h].value = dyn[h].value]_vars

\* C2 witness: a mutation of key k has just been delivered to a subscriber of
\* a connected Dynamic of k while a connected Dynamic of another key exists
C2_Witness ==
    /\ Mutated
    /\ \E s \in DOMAIN subs, h \in DOMAIN dyn, h2 \in DOMAIN dyn :
          /\ RowDynamic(h) /\ LiveOn(s, h) /\ KeyOf(h) = lastCall.key
          /\ Len(subs[s].log) > 0
          /\ subs[s].log[Len(subs[s].log)].seq = Len(published)
          /\ RowDynamic(h2) /\ ~dyn[h2].closed /\ KeyOf(h2) # lastCall.key

\* C7: mutate-then-publish - whenever a delta of a mutation is delivered to
\* a subscriber (of a findUnique or of a findMany Dynamic), a storage
\* findUnique of the mutated key inside the callback returns the
\* post-mutation row.
C7_MutateThenPublish ==
    \A s \in DOMAIN subs :
        \A i \in DOMAIN subs[s].log :
            subs[s].log[i].seq = Len(published) =>
                subs[s].log[i].stored =
                    storageFindUnique(storage, published[Len(published)])

\* C7 witness: a subscriber was notified of a mutation that changed the row
C7_Witness ==
    /\ Mutated
    /\ \E s \in DOMAIN subs :
          \E i \in DOMAIN subs[s].log :
              /\ subs[s].log[i].seq = Len(published)
              /\ subs[s].log[i].stored # Null
              /\ subs[s].since < Len(published)

\* C8: whenever a subscriber of d.updated is notified of a delta, d.read()
\* inside the callback returns the snapshot that includes the delta, for
\* the original Dynamic and for every fork.
C8_ReadInsideCallback ==
    \A s \in DOMAIN subs :
        \A i \in DOMAIN subs[s].log :
            subs[s].log[i].read = subs[s].log[i].newValue

\* C9: every successful mutation publishes one batch, and every subscriber
\* observes the events of successive mutations in publish order: each
\* published batch at most once, later batches later.
C9_PublishOrder ==
    \A s \in DOMAIN subs :
        \A i, j \in DOMAIN subs[s].log :
            /\ subs[s].log[i].seq \in 1..Len(published)
            /\ i < j => subs[s].log[i].seq < subs[s].log[j].seq

\* C9 witness: one subscriber has observed two successive mutations
C9_Witness ==
    \E s \in DOMAIN subs :
        /\ Len(subs[s].log) = 2
        /\ subs[s].log[1].seq = 1
        /\ subs[s].log[2].seq = 2

\* C10: synchronous delivery - when insert/update/delete of key k has
\* returned, every subscriber that was subscribed at call time to `updated`
\* of a connected findUnique(k) Dynamic has been notified of the mutation.
C10_SynchronousDelivery ==
    \A s \in DOMAIN subs :
        LET h == subs[s].dyn
        IN (RowDynamic(h) /\ LiveOn(s, h)) =>
              \A n \in (subs[s].since + 1)..Len(published) :
                  published[n] = KeyOf(h) =>
                      \E i \in DOMAIN subs[s].log : subs[s].log[i].seq = n

\* C10 witness: a mutation of key k returned while a subscriber was
\* subscribed to a connected Dynamic of k
C10_Witness ==
    /\ Mutated
    /\ \E s \in DOMAIN subs :
          /\ RowDynamic(subs[s].dyn) /\ LiveOn(s, subs[s].dyn)
          /\ subs[s].since < Len(published)
          /\ published[Len(published)] = KeyOf(subs[s].dyn)

\* C11: cache eviction - the cache entry of a key is removed only when the
\* subscriber count of the key's shared delta stream (the stream of the
\* cached Dynamic) has stayed at zero for the whole window (its reset timer
\* is pending and fires); never while the count is positive.
C11_CacheEviction ==
    [][\A k \in Keys :
          (rows[k] # 0 /\ rows'[k] = 0) =>
              LET p == dyn[rows[k]].pipe
              IN pipes[p].observers = <<>> /\ pipes[p].timer]_vars

\* C12: after disconnect() on a Dynamic, every later read() and every later
\* fork() on it raises, and neither returns a value.
C12_DisconnectedRaises ==
    [][/\ \A h \in DOMAIN dyn :
              dyn[h].disconnected =>
                  read(dyn[h]) = Threw /\ read(dyn'[h]) = Threw
       /\ (lastCall'.op = "fork" /\ dyn[lastCall'.key].disconnected) =>
              lastCall'.raised /\ dyn' = dyn]_vars

\* C12 witness: fork() was called on a disconnected Dynamic
C12_Witness ==
    /\ lastCall.op = "fork" /\ lastCall.raised
    /\ dyn[lastCall.key].disconnected
    /\ read(dyn[lastCall.key]) = Threw

\* C13: when disconnect() is called on a Dynamic, every subscriber
\* subscribed to its `updated` at that moment receives completion, and
\* receives no delta afterwards although the upstream keeps emitting.
C13_DisconnectCompletes ==
    [][/\ lastCall'.op = "disconnect" =>
              \A s \in DOMAIN subs :
                  (subs[s].dyn = lastCall'.key /\ subs[s].status = "active") =>
                      subs'[s].status = "completed"
       /\ \A s \in DOMAIN subs :
              subs[s].status = "completed" =>
                  subs'[s].status = "completed" /\ subs'[s].log = subs[s].log]_vars

\* the observers of pipe p in world state ps
Observes(ps, p, o) == \E i \in DOMAIN ps[p].observers : ps[p].observers[i] = o

\* C14: fork independence - disconnecting one handle leaves every other
\* handle of the same upstream as it was: its snapshot and its read(), its
\* own subscription to the upstream, and its `updated` subscribers, which
\* stay subscribed to the upstream.
C14_ForkIndependence ==
    [][lastCall'.op = "disconnect" =>
        LET h == lastCall'.key
            p == dyn[h].pipe
        IN /\ \A h2 \in DOMAIN dyn \ {h} :
                  /\ dyn'[h2] = dyn[h2]
                  /\ read(dyn'[h2]) = read(dyn[h2])
                  /\ Observes(pipes, p, DynObserver(h2))
                        => Observes(pipes', p, DynObserver(h2))
           /\ \A s \in DOMAIN subs :
                  subs[s].dyn # h =>
                      /\ subs'[s] = subs[s]
                      /\ Observes(pipes, p, SubObserver(s))
                            => Observes(pipes', p, SubObserver(s))]_vars

\* C14 witness: a handle was disconnected while another connected handle of
\* the same upstream, with a subscriber of its `updated`, exists
C14_Witness ==
    /\ lastCall.op = "disconnect"
    /\ \E h2 \in DOMAIN dyn \ {lastCall.key}, s \in DOMAIN subs :
          /\ dyn[h2].pipe = dyn[lastCall.key].pipe
          /\ ~dyn[h2].closed
          /\ LiveOn(s, h2)
          /\ Observes(pipes, dyn[h2].pipe, SubObserver(s))

\* C15: a connected Dynamic built from v0 over an upstream of
\* (delta, newValue) items reads v0 before any upstream item and the
\* newValue of the most recent item after each; the subscribers of its
\* `updated` receive one delta per upstream item, in upstream order.
C15_ReadFoldsUpstream ==
    /\ \A h \in DOMAIN dyn :
          ~dyn[h].closed =>
              read(dyn[h]) = IF pipes[dyn[h].pipe].emitted = dyn[h].joined
                                THEN dyn[h].initial
                                ELSE pipes[dyn[h].pipe].last
    /\ \A s \in DOMAIN subs :
          LiveOn(s, subs[s].dyn) =>
              /\ Len(subs[s].log) = pipes[dyn[subs[s].dyn].pipe].emitted - subs[s].joined
              /\ \A i, j \in DOMAIN subs[s].log :
                    i < j => subs[s].log[i].seq < subs[s].log[j].seq
              /\ Len(subs[s].log) > 0 =>
                    subs[s].log[Len(subs[s].log)].newValue = pipes[dyn[subs[s].dyn].pipe].last

\* C15 witness: a connected Dynamic with a subscriber has received two
\* upstream items
C15_Witness ==
    \E s \in DOMAIN subs :
        /\ LiveOn(s, subs[s].dyn)
        /\ Len(subs[s].log) = 2
        /\ pipes[dyn[subs[s].dyn].pipe].emitted = dyn[subs[s].dyn].joined + 2
        /\ dyn[subs[s].dyn].value # dyn[subs[s].dyn].initial

\* C16: fork() on a connected Dynamic returns a new Dynamic whose read()
\* equals the origin's snapshot at the moment of the fork and which shares
\* the origin's upstream; the `updated` of a connected Dynamic (a fork
\* included) delivers every upstream delta emitted while subscribed.
C16_ForkClones ==
    [][/\ (lastCall'.op = "fork" /\ ~lastCall'.raised) =>
              LET h == lastCall'.key
                  n == Len(dyn')
              IN /\ n = Len(dyn) + 1
                 /\ read(dyn'[n]) = read(dyn[h])
                 /\ read(dyn'[n]) # Threw
                 /\ dyn'[n].pipe = dyn[h].pipe
                 /\ Observes(pipes', dyn[h].pipe, DynObserver(n))
       /\ \A s \in DOMAIN subs :
              (LiveOn(s, subs[s].dyn) /\ subs'[s].status = "active"
                                      /\ ~dyn'[subs[s].dyn].closed) =>
                  Len(subs'[s].log) - Len(subs[s].log) =
                      pipes'[dyn[subs[s].dyn].pipe].emitted
                          - pipes[dyn[subs[s].dyn].pipe].emitted]_vars

\* C16 witness: a Dynamic that has moved on from its initial value was
\* forked, and the fork reads the moved-on value
C16_Witness ==
    /\ lastCall.op = "fork" /\ ~lastCall.raised
    /\ dyn[lastCall.key].value # dyn[lastCall.key].initial
    /\ read(dyn[Len(dyn)]) = dyn[lastCall.key].value

(***************************************************************************)
(* Standalone partitionByKey (src/util/partitionByKey.mts) over a hot       *)
(* upstream Subject.  Every operator maps the record `pk` to its next       *)
(* value; subscriber callbacks only log what they receive.                  *)
(***************************************************************************)
MaxValues == 3      \* values the upstream emits
MaxKeySubs == 2     \* subscriptions to get_substream(k)
MaxChangeSubs == 2  \* subscriptions to the key-change stream
MaxPkCalls == 5     \* upstream values and subscriptions together

Range(seq) == {seq[i] : i \in DOMAIN seq}

KeyChange(type, keys) == [type |-> type, keys |-> keys]

SsObs(i) == [t |-> "ss", i |-> i]

KsObs(i) == [t |-> "ks", i |-> i]

removeObs(seq, o) == SelectSeq(seq, LAMBDA x : x # o)

AliveKeys(q) == {k \in Keys : q.groups[k] # Null}

\* a key-change mapping that hands every emission's own change on
keyChangeNext_NoBulk(q, i, change) ==
    IF q.ks[i].st # "active" THEN q
    ELSE [q EXCEPT !.ks[i].log = Append(@, change), !.ks[i].i = @ + 1]

\* the key-change mapping: the first emission a subscriber gets lists the
\* keys of the live `groups` map (read when the subscriber receives it)
keyChangeNext(q, i, change) ==
    IF q.ks[i].st # "active" THEN q
    ELSE [q EXCEPT !.ks[i].log = Append(@, IF q.ks[i].i = 0
                                            THEN KeyChange("add", AliveKeys(q))
                                            ELSE change),
                   !.ks[i].i = @ + 1]

\* the teardown of the connection of groupedObservables$ and share's reset
teardownGo(q) ==
    [q EXCEPT !.conn = FALSE, !.latest = Undefined, !.sourceCompleted = FALSE,
              !.groups = [k \in Keys |-> Null]]

\* share({resetOnRefCountZero: true}): the last observer of
\* groupedObservables$ left
goRefCountZero(q) ==
    IF q.conn /\ ~q.sub /\ q.goObs = <<>> THEN teardownGo(q) ELSE q

\* a decRefcount that never releases `sub`
decRefcount_Keep(q) == [q EXCEPT !.refCount = @ - 1]

decRefcount(q) ==
    LET q1 == [q EXCEPT !.refCount = @ - 1]
    IN IF q1.refCount = 0 THEN goRefCountZero([q1 EXCEPT !.sub = FALSE]) ELSE q1

\* subscriber.complete() of groupedObservables$: share resets and completes
\* every observer (key-change subscribers, waiting substream subscribers, `sub`)
goComplete(q) ==
    LET q1 == [q EXCEPT
                 !.ks = MapSeq(q.ks, LAMBDA i, s :
                            IF s.st = "active" THEN [s EXCEPT !.st = "completed"] ELSE s),
                 !.ss = MapSeq(q.ss, LAMBDA i, s :
                            IF s.st = "waiting" THEN [s EXCEPT !.st = "completed"] ELSE s),
                 !.goObs = <<>>, !.sub = FALSE]
    IN teardownGo(q1)

\* subscriber.error(e) of groupedObservables$: share resets and errors every
\* observer; the teardown closes every group's subject, so the substream
\* subscribers of the other groups receive nothing more
goError(q) ==
    LET q1 == [q EXCEPT
                 !.ks = MapSeq(q.ks, LAMBDA i, s :
                            IF s.st = "active" THEN [s EXCEPT !.st = "errored"] ELSE s),
                 !.ss = MapSeq(q.ss, LAMBDA i, s :
                            IF s.st = "waiting" THEN [s EXCEPT !.st = "errored"] ELSE s),
                 !.goObs = <<>>, !.sub = FALSE]
    IN teardownGo(q1)

RECURSIVE DeliverGo(_, _, _)
RECURSIVE Attach(_, _)
RECURSIVE GroupComplete(_, _)
RECURSIVE CompleteAll(_, _)

\* Subject.next of the ReplaySubject of groupedObservables$: one observer
\* after the other, in subscription order; a waiting substream subscriber
\* looks its key up in the live map (getGroupedObservable, lines 212-219)
DeliverGo(q, obs, change) ==
    IF obs = <<>> THEN q
    ELSE LET o == Head(obs)
             q1 == IF o.t = "ks" THEN keyChangeNext(q, o.i, change)
                   ELSE IF q.ss[o.i].st = "waiting" /\ q.groups[q.ss[o.i].key] # Null
                        THEN Attach(q, o.i)
                        ELSE q
         IN DeliverGo(q1, Tail(obs), change)

\* subscriber.next({groups, changes}) of groupedObservables$
goNext(q, change) ==
    DeliverGo([q EXCEPT !.latest = change, !.emitted = Append(@, change)], q.goObs, change)

\* the observers of shared$ after the internal one are completed in turn;
\* each one's subscription runs decRefcount
CompleteAll(q, obs) ==
    IF obs = <<>> THEN q
    ELSE LET i == Head(obs)
             q1 == IF q.ss[i].st = "attached"
                   THEN decRefcount([q EXCEPT !.ss[i].st = "completed"])
                   ELSE q
         IN CompleteAll(q1, Tail(obs))

\* shared$ of group k completes: the internal subscription's handler
\* (lines 128-142) runs first, then the substream subscribers complete
GroupComplete(q, k) ==
    LET g == q.groups[k]
        q1 == [q EXCEPT !.groups[k] = Null]
        q2 == IF g.pendingFirstAdd THEN goNext(q1, KeyChange("add", {k})) ELSE q1
        q3 == goNext(q2, KeyChange("remove", {k}))
        q4 == IF AliveKeys(q3) = {} /\ q3.sourceCompleted THEN goComplete(q3) ELSE q3
    IN CompleteAll(q4, g.obs)

RECURSIVE ErrorAttached(_, _)
\* the observers of shared$ after the internal one are errored in turn
ErrorAttached(q, obs) ==
    IF obs = <<>> THEN q
    ELSE LET i == Head(obs)
             q1 == IF q.ss[i].st = "attached"
                   THEN decRefcount([q EXCEPT !.ss[i].st = "errored"])
                   ELSE q
         IN ErrorAttached(q1, Tail(obs))

\* shared$ of group k errors: the internal subscription's handler (line 127)
\* forwards the error to groupedObservables$, then the substream
\* subscribers of the group are errored
GroupError(q, k) == ErrorAttached(goError(q), q.groups[k].obs)

\* shared$ of group k emits x: its ReplaySubject(1) keeps it and hands it to
\* the attached substream subscribers
sharedNext(q, k, x) ==
    [q EXCEPT !.groups[k].buf = x,
              !.ss = MapSeq(q.ss, LAMBDA i, s :
                         IF i \in Range(q.groups[k].obs) /\ s.st = "attached"
                         THEN [s EXCEPT !.log = Append(@, x)] ELSE s)]

\* g.source.next(x) through streamSelector(subject, key)
subjectNext(q, k, x) ==
    CASE q.sel[k] \in {"identity", "swallow"} -> sharedNext(q, k, x)
      [] q.sel[k] = "take1" -> GroupComplete(sharedNext(q, k, x), k)
      [] OTHER -> q

\* g.source.complete() through streamSelector(subject, key)
subjectComplete(q, k) ==
    IF q.groups[k] # Null /\ q.sel[k] \in {"identity", "take1", "swallow"}
    THEN GroupComplete(q, k) ELSE q

\* g.source.error(e) where no projection stops the error
subjectError_Propagate(q, k) ==
    IF q.groups[k] = Null THEN q
    ELSE IF q.sel[k] = "inner" THEN q ELSE GroupError(q, k)

\* g.source.error(e) through streamSelector(subject, key); on a subject
\* closed by the teardown it throws inside the upstream's error handler
subjectError(q, k) ==
    IF q.groups[k] = Null THEN q
    ELSE CASE q.sel[k] \in {"identity", "take1"} -> GroupError(q, k)
           [] q.sel[k] = "swallow" -> GroupComplete(q, k)
           [] OTHER -> q

\* emitFirstValue without the pendingFirstVal flag
emitFirstValue_Again(q, k) ==
    IF q.groups[k] # Null THEN subjectNext(q, k, q.groups[k].first) ELSE q

emitFirstValue(q, k) ==
    IF q.groups[k] # Null /\ q.groups[k].pendingFirstVal
    THEN subjectNext([q EXCEPT !.groups[k].pendingFirstVal = FALSE], k, q.groups[k].first)
    ELSE q

emitFirstAdd(q, k) ==
    IF q.groups[k] # Null /\ q.groups[k].pendingFirstAdd
    THEN goNext([q EXCEPT !.groups[k].pendingFirstAdd = FALSE], KeyChange("add", {k}))
    ELSE q

\* res over a shared$ that replays nothing
Attach_NoReplay(q, i) ==
    LET k == q.ss[i].key
        q1 == [q EXCEPT !.refCount = @ + 1, !.sub = (@ \/ q.refCount = 0)]
        q2 == [q1 EXCEPT !.ss[i].st = "attached", !.groups[k].obs = Append(@, i)]
        q3 == emitFirstValue(q2, k)
    IN goRefCountZero([q3 EXCEPT !.goObs = removeObs(@, SsObs(i))])

\* innerGroup.observable.subscribe(observer) (res, lines 109-115), then
\* outerSub.unsubscribe()
Attach(q, i) ==
    LET k == q.ss[i].key
        g == q.groups[k]
        q1 == [q EXCEPT !.refCount = @ + 1, !.sub = (@ \/ q.refCount = 0)]
        q2 == [q1 EXCEPT !.ss[i].st = "attached",
                         !.ss[i].log = IF g.buf = Undefined THEN @ ELSE Append(@, g.buf),
                         !.groups[k].obs = Append(@, i)]
        q3 == emitFirstValue(q2, k)
    IN goRefCountZero([q3 EXCEPT !.goObs = removeObs(@, SsObs(i))])

\* the upstream next handler, lines 78-146
upstreamNext(q, x) ==
    LET k == x.key
        q1 == [q EXCEPT !.groups[k] = [pendingFirstAdd |-> TRUE, pendingFirstVal |-> TRUE,
                                       first |-> x, buf |-> Undefined, obs |-> <<>>]]
        q2 == IF q.sel[k] = "EMPTY" THEN GroupComplete(q1, k) ELSE q1
    IN IF q.groups[k] # Null THEN subjectNext(q, k, x)
       ELSE emitFirstValue(emitFirstAdd(q2, k), k)

\* the alive keys in the insertion order of the `groups` map
RECURSIVE groupsInOrder(_, _)
groupsInOrder(q, ks) ==
    IF ks = {} THEN <<>>
    ELSE LET k == CHOOSE a \in ks : \A b \in ks : q.groups[a].first.n <= q.groups[b].first.n
         IN <<k>> \o groupsInOrder(q, ks \ {k})

RECURSIVE completeGroups(_, _)
completeGroups(q, ks) ==
    IF ks = <<>> THEN q ELSE completeGroups(subjectComplete(q, Head(ks)), Tail(ks))

\* a finalize("complete") that completes the subscriber whatever groups live
finalizeComplete_Now(q) == goComplete([q EXCEPT !.sourceCompleted = TRUE])

\* finalize("complete"), lines 64-75
finalizeComplete(q) ==
    LET q1 == [q EXCEPT !.sourceCompleted = TRUE]
    IN IF AliveKeys(q1) # {} THEN completeGroups(q1, groupsInOrder(q1, AliveKeys(q1)))
       ELSE goComplete(q1)

RECURSIVE errorGroups(_, _)
errorGroups(q, ks) ==
    IF ks = <<>> THEN q ELSE errorGroups(subjectError(q, Head(ks)), Tail(ks))

\* finalize("error"), lines 64-75
finalizeError(q) ==
    LET q1 == [q EXCEPT !.sourceCompleted = TRUE]
    IN IF AliveKeys(q1) # {} THEN errorGroups(q1, groupsInOrder(q1, AliveKeys(q1)))
       ELSE goError(q1)

\* groupedObservables$.subscribe(o): share connects to the upstream for its
\* first observer, its ReplaySubject(1) replays the latest emission otherwise
goSubscribe(q, o) ==
    LET q1 == [q EXCEPT !.goObs = Append(@, o)]
        q2 == [q1 EXCEPT !.conn = TRUE]
    IN IF q.conn
       THEN IF q.latest = Undefined THEN q1 ELSE DeliverGo(q1, <<o>>, q.latest)
       ELSE CASE q.up = "completed" -> finalizeComplete(q2)
              [] q.up = "errored" -> finalizeError(q2)
              [] OTHER -> q2

PkWithin == Len(pk.sent) + Len(pk.ss) + Len(pk.ks) < MaxPkCalls

PkDone(q, op, arg) == pk' = [q EXCEPT !.last = [op |-> op, arg |-> arg]]

\* stream.next(x) with keySelector(x) = k
UpstreamNext(k) ==
    /\ pk.up = "open" /\ Len(pk.sent) < MaxValues /\ PkWithin
    /\ LET x == [key |-> k, n |-> Len(pk.sent) + 1]
           q == [pk EXCEPT !.sent = Append(@, k)]
       IN PkDone(IF pk.conn THEN upstreamNext(q, x) ELSE q, "next", k)
    /\ UNCHANGED <<pgVars, tbVars, cxVars>>

\* stream.complete()
UpstreamComplete ==
    /\ pk.up = "open"
    /\ LET q == [pk EXCEPT !.up = "completed"]
       IN PkDone(IF pk.conn THEN finalizeComplete(q) ELSE q, "complete", 0)
    /\ UNCHANGED <<pgVars, tbVars, cxVars>>

\* stream.error(e)
UpstreamError ==
    /\ pk.up = "open"
    /\ LET q == [pk EXCEPT !.up = "errored"]
       IN PkDone(IF pk.conn THEN finalizeError(q) ELSE q, "error", 0)
    /\ UNCHANGED <<pgVars, tbVars, cxVars>>

\* inner$ of key k's projection completes
InnerComplete(k) ==
    /\ pk.groups[k] # Null /\ pk.sel[k] = "inner"
    /\ PkDone(GroupComplete(pk, k), "innerComplete", k)
    /\ UNCHANGED <<pgVars, tbVars, cxVars>>

\* getGroupedObservable(k).subscribe(observer)
SubscribeKey(k) ==
    /\ Len(pk.ss) < MaxKeySubs /\ PkWithin
    /\ LET i == Len(pk.ss) + 1
           q == [pk EXCEPT !.ss = Append(@, [key |-> k, st |-> "waiting", log |-> <<>>,
                                               since |-> Len(pk.sent)])]
       IN PkDone(goSubscribe(q, SsObs(i)), "subscribeKey", i)
    /\ UNCHANGED <<pgVars, tbVars, cxVars>>

\* the teardown of getGroupedObservable's subscription, lines 232-235
UnsubscribeKey(i) ==
    /\ pk.ss[i].st \in {"waiting", "attached"}
    /\ LET k == pk.ss[i].key
           q == [pk EXCEPT !.ss[i].st = "unsubscribed"]
           q1 == IF q.groups[k] = Null THEN q
                 ELSE [q EXCEPT !.groups[k].obs = SelectSeq(@, LAMBDA j : j # i)]
       IN PkDone(IF pk.ss[i].st = "attached" THEN decRefcount(q1)
                 ELSE goRefCountZero([q EXCEPT !.goObs = removeObs(@, SsObs(i))]),
                 "unsubscribeKey", i)
    /\ UNCHANGED <<pgVars, tbVars, cxVars>>

\* subscribe to the key-change stream
SubscribeChanges ==
    /\ Len(pk.ks) < MaxChangeSubs /\ PkWithin
    /\ LET i == Len(pk.ks) + 1
           q == [pk EXCEPT !.ks = Append(@, [st |-> "active", i |-> 0, log |-> <<>>,
                                               since |-> Len(pk.sent),
                                               late |-> pk.conn /\ pk.latest # Undefined,
                                               alive |-> AliveKeys(pk),
                                               joined |-> Len(pk.emitted)])]
       IN PkDone(goSubscribe(q, KsObs(i)), "subscribeChanges", i)
    /\ UNCHANGED <<pgVars, tbVars, cxVars>>

UnsubscribeChanges(i) ==
    /\ pk.ks[i].st = "active"
    /\ PkDone(goRefCountZero([pk EXCEPT !.ks[i].st = "unsubscribed",
                                        !.goObs = removeObs(@, KsObs(i))]),
              "unsubscribeChanges", i)
    /\ UNCHANGED <<pgVars, tbVars, cxVars>>

PkInit ==
    /\ pgRows = {}
    /\ pgInput = TbPageInput(Undefined)
    /\ pgPage = NoPage
    /\ pgError = "none"
    /\ iter = IterIdle
    /\ storage = [k \in Keys |-> Null]
    /\ rows = [k \in Keys |-> 0]
    /\ dyn = <<>>
    /\ pipes = <<>>
    /\ subs = <<>>
    /\ groups = [k \in Keys |-> Null]
    /\ refCount = 0
    /\ published = <<>>
    /\ lastCall = [op |-> "new", key |-> 0, arg |-> Undefined, raised |-> FALSE]
    /\ \E sel \in [Keys -> PkSelectors] : pk = PkFresh(sel)
    /\ cx = CxIdle

PkNext ==
    \/ \E k \in Keys : UpstreamNext(k)
    \/ UpstreamComplete
    \/ UpstreamError
    \/ \E k \in Keys : InnerComplete(k)
    \/ \E k \in Keys : SubscribeKey(k)
    \/ \E i \in DOMAIN pk.ss : UnsubscribeKey(i)
    \/ SubscribeChanges
    \/ \E i \in DOMAIN pk.ks : UnsubscribeChanges(i)

PartitionSpec == PkInit /\ [][PkNext]_vars

(***************************************************************************)
(* Claims on partitionByKey (checked under PartitionSpec)                   *)
(***************************************************************************)
\* the upstream values of key k after the first `since` ones, in upstream order
UpstreamOf(k, since) ==
    SelectSeq([n \in 1..Len(pk.sent) |-> [key |-> pk.sent[n], n |-> n]],
              LAMBDA x : x.key = k /\ x.n > since)

\* substream subscriber i is subscribed (waiting for its group or attached to it)
Listening(i) == pk.ss[i].st \in {"waiting", "attached"}

\* C17: with the default projection, a subscriber of get_substream(k) that
\* is still subscribed has received, since it subscribed, exactly the
\* upstream values of key k, each once and in upstream order (the value that
\* created the group included); at most one older value precedes them (the
\* replay), and no value of another key is ever received.
C17_Routing ==
    \A i \in DOMAIN pk.ss :
        LET s == pk.ss[i]
        IN /\ \A j \in DOMAIN s.log : s.log[j].key = s.key
           /\ (Listening(i) /\ pk.sel[s.key] = "identity") =>
                  /\ SelectSeq(s.log, LAMBDA x : x.n > s.since) = UpstreamOf(s.key, s.since)
                  /\ \A j \in DOMAIN s.log : s.log[j].n <= s.since => j = 1

\* a subscriber that waited for its group got the value that created the
\* group and a later one, while the other key had traffic too
C17_Witness ==
    \E i \in DOMAIN pk.ss :
        /\ pk.ss[i].st = "attached" /\ pk.sel[pk.ss[i].key] = "identity"
        /\ pk.ss[i].since = 0
        /\ Len(pk.ss[i].log) = 2
        /\ Len(pk.sent) = 3

\* the most recent upstream value of key k
LatestOf(k) ==
    LET n == CHOOSE a \in DOMAIN pk.sent :
                 pk.sent[a] = k /\ \A b \in DOMAIN pk.sent : pk.sent[b] = k => b <= a
    IN [key |-> k, n |-> n]

\* C18: a subscription to get_substream(k) made while k's group (default
\* projection) is alive receives in that very step the most recent value of
\* the group and nothing else; and whenever the group emits afterwards, an
\* attached subscriber receives that value next.
C18_Replay ==
    [][/\ \A k \in Keys :
            (/\ pk'.last.op = "subscribeKey" /\ Len(pk'.ss) = Len(pk.ss) + 1
             /\ pk'.ss[Len(pk'.ss)].key = k
             /\ pk.groups[k] # Null /\ pk.sel[k] = "identity")
            => /\ pk'.ss[Len(pk'.ss)].log = <<LatestOf(k)>>
               /\ pk'.ss[Len(pk'.ss)].st = "attached"
       /\ \A i \in DOMAIN pk.ss :
            (/\ pk.ss[i].st = "attached" /\ pk'.ss[i].st = "attached"
             /\ pk'.last = [op |-> "next", arg |-> pk.ss[i].key]
             /\ pk.groups[pk.ss[i].key] # Null /\ pk'.groups[pk.ss[i].key] # Null
             /\ pk.sel[pk.ss[i].key] = "identity")
            => pk'.ss[i].log = Append(pk.ss[i].log, [key |-> pk.ss[i].key, n |-> Len(pk'.sent)])
      ]_vars

\* a late subscriber got the value emitted before it subscribed, then a later one
C18_Witness ==
    \E i \in DOMAIN pk.ss :
        /\ pk.ss[i].st = "attached" /\ pk.sel[pk.ss[i].key] = "identity"
        /\ Len(pk.ss[i].log) = 2
        /\ pk.ss[i].log[1].n <= pk.ss[i].since
        /\ pk.ss[i].log[2].n > pk.ss[i].since

\* C19: in the log of every key-change subscriber, a remove containing key
\* k is preceded by an add containing k (also when k's inner stream
\* completes while k's first value is being handled).
C19_AddBeforeRemove ==
    \A i \in DOMAIN pk.ks : \A k \in Keys :
        LET log == pk.ks[i].log
        IN \A j \in DOMAIN log :
              (log[j].type = "remove" /\ k \in log[j].keys)
              => \E a \in 1..(j - 1) : log[a].type = "add" /\ k \in log[a].keys

\* how many times x occurs in the sequence s
Count(s, x) == Cardinality({j \in DOMAIN s : s[j] = x})

\* C20: a key-change subscriber that subscribed after groupedObservables$
\* had emitted received at once a single add listing exactly the keys that
\* were alive when it subscribed; while it stays subscribed, what it
\* received afterwards are the single-key changes emitted since, each once.
C20_LateBulkAdd ==
    \A i \in DOMAIN pk.ks :
        LET s == pk.ks[i]
            later == SubSeq(s.log, 2, Len(s.log))
            since == SubSeq(pk.emitted, s.joined + 1, Len(pk.emitted))
        IN s.late =>
              /\ s.log # <<>>
              /\ s.log[1] = KeyChange("add", s.alive)
              /\ \A j \in DOMAIN later : Cardinality(later[j].keys) = 1
              /\ s.st = "active" =>
                    /\ Len(later) = Len(since)
                    /\ \A j \in DOMAIN since : Count(later, since[j]) = Count(since, since[j])

\* a late subscriber was handed the alive key while a removed key is not
\* listed, and then received an incremental change
C20_Witness ==
    \E i \in DOMAIN pk.ks :
        /\ pk.ks[i].late /\ pk.ks[i].st = "active"
        /\ pk.ks[i].alive # {}
        /\ \E j \in 1..pk.ks[i].joined :
              pk.emitted[j].type = "remove" /\ pk.emitted[j].keys \cap pk.ks[i].alive = {}
        /\ Len(pk.ks[i].log) >= 2

\* the entries of a key-change log that list key k
LogOf(log, k) == SelectSeq(log, LAMBDA c : k \in c.keys)

\* C21: in the log of a key-change subscriber present before the first
\* upstream value, the entries listing a key alternate add, remove, add, ...
\* starting with an add (so every remove is preceded by an add listing the
\* key), and a key that is not alive has as many removes as adds.
C21_BalancedLog ==
    \A i \in DOMAIN pk.ks : \A k \in Keys :
        LET s == pk.ks[i]
            l == LogOf(s.log, k)
        IN s.since = 0 =>
              /\ \A j \in DOMAIN l : l[j].type = (IF j % 2 = 1 THEN "add" ELSE "remove")
              /\ (s.st \in {"active", "completed"} /\ pk.groups[k] = Null) => Len(l) % 2 = 0

\* the entries subscriber i of the key-change stream receives in this step
Received(i) == SubSeq(pk'.ks[i].log, Len(pk.ks[i].log) + 1, Len(pk'.ks[i].log))

\* C22: once the upstream has completed, a key-change subscriber is not
\* completed while a group is alive; in the step that completes it, the
\* upstream is completed, no group is left alive, and it has first received
\* the remove of every key that was alive before the step.
C22_CompletesAfterLastGroup ==
    [][\A i \in DOMAIN pk.ks :
          /\ (pk'.up = "completed" /\ pk'.ks[i].st = "active") => AliveKeys(pk') # {}
          /\ (pk'.up = "completed" /\ pk.ks[i].st = "active" /\ AliveKeys(pk') = {}
               /\ pk'.last.op \in {"complete", "innerComplete"})
              => pk'.ks[i].st = "completed"
          /\ (pk.ks[i].st = "active" /\ pk'.ks[i].st = "completed" /\ pk'.up = "completed")
              => /\ AliveKeys(pk') = {}
                 /\ \A k \in AliveKeys(pk) :
                       \E j \in DOMAIN Received(i) : Received(i)[j] = KeyChange("remove", {k})
      ]_vars

\* the upstream completed while a group was alive; the subscriber was
\* completed later, by the completion of the last group
C22_Witness ==
    \E i \in DOMAIN pk.ks :
        /\ pk.up = "completed" /\ pk.last.op = "innerComplete"
        /\ pk.ks[i].st = "completed"
        /\ pk.ks[i].log # <<>>
        /\ pk.ks[i].log[Len(pk.ks[i].log)] = KeyChange("remove", {pk.last.arg})

\* the projection of key k stops an error of its source
Swallows(k) == pk.sel[k] \in {"swallow", "inner"}

\* C23: when the upstream errors while groups are alive and every alive
\* group's projection stops the error, a key-change subscriber is not
\* errored, in that step or later; it receives the removes of the groups
\* that complete and is completed when no group is left.
C23_SwallowedError ==
    [][\A i \in DOMAIN pk.ks :
          /\ (/\ pk'.last.op = "error" /\ pk.up = "open" /\ pk.ks[i].st = "active"
               /\ AliveKeys(pk) # {} /\ \A k \in AliveKeys(pk) : Swallows(k))
              => /\ pk'.ks[i].st \in {"active", "completed"}
                 /\ \A k \in AliveKeys(pk) \ AliveKeys(pk') :
                       \E j \in DOMAIN Received(i) : Received(i)[j] = KeyChange("remove", {k})
                 /\ pk'.ks[i].st = "completed" <=> AliveKeys(pk') = {}
          /\ (pk.up = "errored" /\ pk.ks[i].st = "active")
              => /\ pk'.ks[i].st \in {"active", "completed", "unsubscribed"}
                 /\ pk'.ks[i].st = "completed" => AliveKeys(pk') = {}
      ]_vars

\* the upstream errored, the only alive group stopped the error and
\* completed: the subscriber got its remove and was completed
C23_Witness ==
    \E i \in DOMAIN pk.ks :
        /\ pk.up = "errored" /\ pk.last.op = "error"
        /\ pk.ks[i].st = "completed"
        /\ Len(pk.ks[i].log) >= 2
        /\ pk.ks[i].log[Len(pk.ks[i].log)].type = "remove"

\* C24: when the upstream errors while a group whose projection propagates
\* the error is alive, a key-change subscriber receives the remove of that
\* group in the step that errors it.
C24_RemoveBeforeError ==
    [][\A i \in DOMAIN pk.ks : \A k \in Keys :
          (/\ pk'.last.op = "error" /\ pk.up = "open" /\ pk.ks[i].st = "active"
           /\ pk.groups[k] # Null /\ pk.sel[k] = "identity"
           /\ pk'.ks[i].st = "errored")
          => \E j \in DOMAIN Received(i) : Received(i)[j] = KeyChange("remove", {k})
      ]_vars

\* somebody is subscribed to a substream or to the key-change stream
Subscribed(q) ==
    \/ \E i \in DOMAIN q.ss : q.ss[i].st \in {"waiting", "attached"}
    \/ \E i \in DOMAIN q.ks : q.ks[i].st = "active"

\* C25: while the upstream is open, it is subscribed exactly while somebody
\* is subscribed (from the first subscriber on, until the last one leaves),
\* and when it is not subscribed no group (inner projection subscription)
\* is left.
C25_Refcount ==
    pk.up = "open" =>
        /\ pk.conn <=> Subscribed(pk)
        /\ ~pk.conn => AliveKeys(pk) = {}
        /\ pk.refCount = Cardinality({i \in DOMAIN pk.ss : pk.ss[i].st = "attached"})

\* two subscribers of a substream came and left after a value created the
\* group: the last unsubscription tore everything down
C25_Witness ==
    /\ pk.up = "open" /\ ~pk.conn /\ pk.last.op = "unsubscribeKey"
    /\ Len(pk.ss) = 2 /\ \A i \in DOMAIN pk.ss : pk.ss[i].st = "unsubscribed" /\ pk.ss[i].log # <<>>
    /\ pk.refCount = 0

(***************************************************************************)
(* Claims on Table.findMany (checked under Spec)                            *)
(***************************************************************************)
\* subscription s is live on the `updated` of a page Dynamic
OnPage(s) == subs[s].status = "active" /\ pipes[dyn[subs[s].dyn].pipe].kind = "page"

PageFilterOf(s) == pipes[dyn[subs[s].dyn].pipe].filter

\* the deltas subscription s receives in this step
NewDeltas(s) ==
    LET l == SubSeq(subs'[s].log, Len(subs[s].log) + 1, Len(subs'[s].log))
    IN [j \in DOMAIN l |-> l[j].delta]

\* C26: in every Table.insert that succeeds, each live subscriber of a page
\* Dynamic receives exactly one delta [{add, row}] when the inserted row
\* satisfies the page filter (or there is no filter), and no delta when it
\* does not.
C26_InsertDelta ==
    [][(lastCall'.op = "insert" /\ ~lastCall'.raised /\ published' # published) =>
          \A s \in DOMAIN subs :
             OnPage(s) =>
                LET row == storage'[lastCall'.key]
                IN NewDeltas(s) = IF filter(PageFilterOf(s), row) = "true"
                                  THEN << <<[kind |-> "add", row |-> row]>> >>
                                  ELSE <<>>
      ]_vars

\* C27: in every Table.delete of a key whose stored row satisfied the page
\* filter (or of any stored key when there is no filter), each live
\* subscriber of a page Dynamic receives exactly one delta [{remove, key}]
\* and its stream is not errored.
C27_DeleteDelta ==
    [][(lastCall'.op = "delete" /\ ~lastCall'.raised /\ published' # published) =>
          \A s \in DOMAIN subs :
             LET key == lastCall'.key
             IN (/\ OnPage(s) /\ storage[key] # Null
                 /\ filter(PageFilterOf(s), storage[key]) = "true")
                => /\ NewDeltas(s) = << <<[kind |-> "remove", key |-> key]>> >>
                   /\ subs'[s].status = "active"
      ]_vars

(***************************************************************************)
(* Claims on Table.update and Table.upsert (checked under Spec)            *)
(***************************************************************************)
\* C29: an update with zero columns to change is a silent no-op: the call
\* raises nothing, the stored row is unchanged and no Dynamic snapshot of
\* that key changes.
C29_EmptyUpdateNoOp ==
    [][(lastCall'.op = "update" /\ DOMAIN lastCall'.arg = {}) =>
          /\ ~lastCall'.raised
          /\ storage'[lastCall'.key] = storage[lastCall'.key]
          /\ \A h \in DOMAIN dyn :
                (RowDynamic(h) /\ KeyOf(h) = lastCall'.key) =>
                    read(dyn'[h]) = read(dyn[h])
      ]_vars

\* C30: Table.upsert(row) forwards the row to storage and then publishes an
\* event for the row's key: after the call storage holds the row and every
\* connected Dynamic of that key reads it.
C30_UpsertPublishes ==
    [][lastCall'.op = "upsert" =>
          /\ ~lastCall'.raised
          /\ storage'[lastCall'.key] = lastCall'.arg
          /\ \A h \in DOMAIN dyn :
                (RowDynamic(h) /\ KeyOf(h) = lastCall'.key /\ ~dyn'[h].closed) =>
                    read(dyn'[h]) = lastCall'.arg
      ]_vars

(***************************************************************************)
(* Claims on the lifecycle of the handles (checked under Spec)             *)
(***************************************************************************)
\* C37: Table.findUnique(k) never raises because of earlier handle
\* lifecycles: after any calls, findUnique(k) returns a connected Dynamic
\* whose read() succeeds, also when the handle first returned for k was
\* disconnected and the cache entry of k has not been evicted.
C37_FindUniqueNeverRaises ==
    [][lastCall'.op = "findUnique" =>
          /\ ~lastCall'.raised
          /\ Len(dyn') = Len(dyn) + 1
          /\ read(dyn'[Len(dyn')]) # Threw
      ]_vars

\* C38: when the storage operation of Table.insert/update/delete raises, the
\* error reaches the caller and the Table publishes no event: the storage,
\* every Dynamic snapshot and every subscriber's log are what they were.
C38_FailedMutationSilent ==
    [][(lastCall'.op \in Mutations /\ lastCall'.raised) =>
          /\ published' = published
          /\ storage' = storage
          /\ \A h \in DOMAIN dyn : dyn'[h].value = dyn[h].value
          /\ \A s \in DOMAIN subs : subs'[s].log = subs[s].log
      ]_vars

\* C38 witness: an insert raised on a key conflict while a subscriber was
\* live on a connected Dynamic of that key
C38_Witness ==
    /\ lastCall.op = "insert" /\ lastCall.raised
    /\ storage[lastCall.key] # Null
    /\ \E h \in DOMAIN dyn, s \in DOMAIN subs :
          RowDynamic(h) /\ KeyOf(h) = lastCall.key /\ LiveOn(s, h)

\* C39: after disconnect() on a Dynamic, a subscriber that subscribes to its
\* `updated` only afterwards never receives a delta: nothing emitted after
\* the disconnect and no replayed earlier item is delivered through the
\* disconnected handle.
C39_NoDeltaAfterDisconnect ==
    [][\A s \in DOMAIN subs' :
          LET h == subs'[s].dyn
          IN (h \in DOMAIN dyn /\ dyn[h].disconnected) =>
                subs'[s].log = IF s \in DOMAIN subs THEN subs[s].log ELSE <<>>
      ]_vars

\* C40: while a Dynamic returned by findUnique(k) and the forks of it (the
\* forks returned by later findUnique(k) calls included) are connected, their
\* read() results are equal after every mutation: any two connected Dynamics
\* of one row stream read the same value in every state.
C40_ForksReadEqual ==
    \A h1, h2 \in DOMAIN dyn :
        (/\ RowDynamic(h1) /\ RowDynamic(h2)
         /\ dyn[h1].pipe = dyn[h2].pipe
         /\ ~dyn[h1].closed /\ ~dyn[h2].closed)
        => read(dyn[h1]) = read(dyn[h2])

\* C40 witness: a Dynamic of findUnique(k) and a fork of it that was made
\* before the stream's latest item are both connected after two mutations of
\* k, and what they read is the row of the second mutation, not their
\* initial value.
C40_Witness ==
    \E h1, h2 \in DOMAIN dyn :
        /\ h1 < h2 /\ RowDynamic(h1) /\ dyn[h1].pipe = dyn[h2].pipe
        /\ ~dyn[h1].closed /\ ~dyn[h2].closed
        /\ pipes[dyn[h1].pipe].emitted >= 2
        /\ dyn[h2].joined < pipes[dyn[h1].pipe].emitted
        /\ read(dyn[h2]) # dyn[h2].initial
        /\ read(dyn[h1]) = pipes[dyn[h1].pipe].last

(***************************************************************************)
(* Storage adapter (BetterSqlite3Storage): upsert, update, mutate and      *)
(* mutateMany over the User table                                          *)
(***************************************************************************)
MaxBatch == 2       \* mutations in one mutateMany call

\* Mutation<Table>
StorageMutations ==
    {[type |-> "insert", row |-> r] : r \in TableRows}
        \cup {[type |-> "upsert", row |-> r] : r \in TableRows}
        \cup {[type |-> "update", key |-> k, partialRow |-> c] :
                  k \in Keys, c \in Changes \cup {NoChanges}}
        \cup {[type |-> "delete", key |-> k] : k \in Keys}

Batches == UNION {[1..n -> StorageMutations] : n \in 0..MaxBatch}

\* an upsert that keeps the stored row on a conflict (INSERT OR IGNORE)
storageUpsert_Ignore(st, row) ==
    IF st[row.id] = Null THEN [st EXCEPT ![row.id] = row] ELSE st

\* INSERT ... ON CONFLICT (id) DO UPDATE SET name = ?
storageUpsert(st, row) ==
    IF st[row.id] = Null
        THEN [st EXCEPT ![row.id] = row]
        ELSE [st EXCEPT ![row.id] = [name |-> row.name] @@ @]

\* BetterSqlite3Storage.update: no column, no statement
update(st, key, changes) ==
    IF DOMAIN changes = {} THEN st ELSE storageUpdate(st, key, changes)

\* BetterSqlite3Storage.mutate
mutate(st, mutation) ==
    CASE mutation.type = "insert" -> storageInsert(st, mutation.row)
      [] mutation.type = "upsert" ->
            [raised |-> FALSE, storage |-> storageUpsert(st, mutation.row)]
      [] mutation.type = "update" ->
            [raised |-> FALSE,
             storage |-> update(st, mutation.key, mutation.partialRow)]
      [] mutation.type = "delete" ->
            [raised |-> FALSE, storage |-> storageDelete(st, mutation.key)]

\* for (const m of mutations) this.mutate(m): stops at the first throw
RECURSIVE mutateEach(_, _)
mutateEach(st, mutations) ==
    IF mutations = <<>> THEN [raised |-> FALSE, storage |-> st]
    ELSE LET r == mutate(st, Head(mutations))
         IN IF r.raised THEN r ELSE mutateEach(r.storage, Tail(mutations))

\* mutateMany running its members outside a transaction
mutateMany_NoRollback(st, mutations) == mutateEach(st, mutations)

\* database.transaction(fn)(): commit, or roll back and rethrow
mutateMany(st, mutations) ==
    LET r == mutateEach(st, mutations)
    IN IF r.raised THEN [raised |-> TRUE, storage |-> st] ELSE r

StorageCalled(op, arg, r) ==
    /\ storage' = r.storage
    /\ CalledWith(op, 0, arg, r.raised)
    /\ UNCHANGED <<pgVars, pkVars, cxVars, rows, dyn, pipes, subs, groups, refCount, published>>

StorageMutate(mutation) == StorageCalled("mutate", mutation, mutate(storage, mutation))

StorageMutateMany(mutations) ==
    StorageCalled("mutateMany", mutations, mutateMany(storage, mutations))

StorageNext ==
    \/ \E mutation \in StorageMutations : StorageMutate(mutation)
    \/ \E mutations \in Batches : StorageMutateMany(mutations)

StorageSpec == Init /\ [][StorageNext]_vars

(***************************************************************************)
(* Claims on the storage adapter (checked under StorageSpec)               *)
(***************************************************************************)
\* the storage after every member of muts took effect, one after the other
RECURSIVE Applied(_, _)
Applied(st, muts) ==
    IF muts = <<>> THEN st
    ELSE Applied(mutate(st, Head(muts)).storage, Tail(muts))

\* some member of muts raises when the members run in list order
MemberRaises(st, muts) ==
    \E i \in 1..Len(muts) : mutate(Applied(st, SubSeq(muts, 1, i - 1)), muts[i]).raised

\* C28: mutateMany is atomic: when a member mutation raises, the call raises
\* and the storage is what it was before the call; when no member raises, the
\* call returns and the storage shows every member's effect in list order.
C28_MutateManyAtomic ==
    [][lastCall'.op = "mutateMany" =>
          LET muts == lastCall'.arg
          IN /\ lastCall'.raised = MemberRaises(storage, muts)
             /\ storage' = IF MemberRaises(storage, muts)
                               THEN storage
                               ELSE Applied(storage, muts)
      ]_vars

\* a mutateMany call raised on its second member after a first member that
\* alone would have changed the storage
C28_Witness ==
    /\ lastCall.op = "mutateMany" /\ lastCall.raised
    /\ Len(lastCall.arg) = 2
    /\ ~mutate(storage, lastCall.arg[1]).raised
    /\ mutate(storage, lastCall.arg[1]).storage # storage

\* C33: storage upsert(row) leaves exactly row stored under its primary key
\* whether or not the key held a row before, leaves every other row
\* unchanged, and a second upsert of the same row changes nothing.
C33_UpsertIdempotent ==
    [][(lastCall'.op = "mutate" /\ lastCall'.arg.type = "upsert") =>
          LET row == lastCall'.arg.row
          IN /\ ~lastCall'.raised
             /\ storageFindUnique(storage', row.id) = row
             /\ \A k \in Keys \ {row.id} : storage'[k] = storage[k]
             /\ mutate(storage', lastCall'.arg).storage = storage'
      ]_vars

\* C33 witness: after an upsert its row is the one stored under its key,
\* while another key holds a row
C33_Witness ==
    /\ lastCall.op = "mutate" /\ lastCall.arg.type = "upsert"
    /\ storage[lastCall.arg.row.id] = lastCall.arg.row
    /\ \E k \in Keys \ {lastCall.arg.row.id} : storage[k] # Null

(***************************************************************************)
(* Expression compiler (RSql/Expression.mts).  A SQL text is the sequence  *)
(* of its tokens; the parameter schedule is the sequence of the constants  *)
(* and parameters the generator yielded, each answered with "?".           *)
(***************************************************************************)
MaxArgs == 2        \* elements of a tuple, arguments of a function call

mkUnOp(operator, expression) ==
    [kind |-> "unOp", operator |-> operator, expression |-> expression]

mkFunction(name, args) == [kind |-> "function", name |-> name, args |-> args]

mkAsterisk == [kind |-> "asterisk"]

\* assert.fail("Unsupported expression type in renderExpression ...")
Unsupported == [raised |-> TRUE, sql |-> <<>>, params |-> <<>>]

Rendered(sql, params) == [raised |-> FALSE, sql |-> sql, params |-> params]

\* parts.join(", ")
RECURSIVE JoinSql(_)
JoinSql(parts) ==
    IF parts = <<>> THEN <<>>
    ELSE IF Len(parts) = 1 THEN parts[1]
    ELSE parts[1] \o <<",">> \o JoinSql(Tail(parts))

\* the yields of the parts, one part after the other
RECURSIVE Yields(_)
Yields(parts) == IF parts = <<>> THEN <<>> ELSE Head(parts).params \o Yields(Tail(parts))

\* renderExpressionToSql driven by compileExpressionToSql: the text, and the
\* Parameterizables yielded, in the order the generator reaches them
RECURSIVE renderExpressionToSql(_)
renderExpressionToSql(expr) ==
    CASE expr.kind = "binOp" ->
            LET left == renderExpressionToSql(expr.left)
                right == renderExpressionToSql(expr.right)
            IN IF left.raised \/ right.raised THEN Unsupported
               ELSE Rendered(<<"(">> \o left.sql \o <<expr.operator>> \o right.sql \o <<")">>,
                             left.params \o right.params)
      [] expr.kind = "unOp" /\ expr.operator = "NOT" ->
            LET operand == renderExpressionToSql(expr.expression)
            IN IF operand.raised THEN Unsupported
               ELSE Rendered(<<"(", "NOT">> \o operand.sql \o <<")">>, operand.params)
      [] expr.kind = "column" -> Rendered(<<expr.name>>, <<>>)
      [] expr.kind \in {"constant", "parameter"} -> Rendered(<<"?">>, <<expr>>)
      [] expr.kind \in {"function", "tuple"} ->
            LET list == IF expr.kind = "function" THEN expr.args ELSE expr.expressions
                parts == MapSeq(list, LAMBDA i, e : renderExpressionToSql(e))
                head == IF expr.kind = "function" THEN <<expr.name, "(">> ELSE <<"(">>
            IN IF \E i \in DOMAIN parts : parts[i].raised THEN Unsupported
               ELSE Rendered(head \o JoinSql(MapSeq(parts, LAMBDA i, r : r.sql)) \o <<")">>,
                             Yields(parts))
      [] expr.kind = "asterisk" -> Rendered(<<"*">>, <<>>)
      [] OTHER -> Unsupported

\* compileExpressionToSql(expr): [sql, getParams], or the throw
compileExpressionToSql(expr) == renderExpressionToSql(expr)

\* getParams(context) of a compiled expression
getParams(compiled, context) ==
    MapSeq(compiled.params, LAMBDA i, p : GetValue(p, context))

\* the expressions compiled: leaves, every node kind over the leaves, and
\* every node kind over a few composite operands
CxLeaves ==
    {mkColumn("age"), mkConstant(25), mkParameter(<<"a">>), mkParameter(<<"b">>)}

CxContexts == {[a |-> 1, b |-> 2], [a |-> 2, b |-> 1]}

CxLists(S) == UNION {[1..n -> S] : n \in 0..MaxArgs}

CxNodes(S) ==
    {mkBinOp(o, l, r) : o \in {"=", "+", "AND"}, l \in S, r \in S}
        \cup {mkUnOp(o, e) : o \in {"NOT", "-", "+"}, e \in S}
        \cup {mkTuple(l) : l \in CxLists(S)}
        \cup {mkFunction("max", l) : l \in CxLists(S)}
        \cup {mkAsterisk}

CxInner ==
    {mkEq(mkColumn("age"), mkParameter(<<"a">>)),
     mkTuple(<<mkParameter(<<"b">>), mkConstant(25)>>),
     mkUnOp("NOT", mkParameter(<<"a">>)),
     mkParameter(<<"b">>)}

CxExprs == CxLeaves \cup CxNodes(CxLeaves) \cup CxNodes(CxInner)

\* const [sql, getParams] = compileExpressionToSql(expr); getParams(context)
Compile(expr, context) ==
    /\ LET compiled == compileExpressionToSql(expr)
       IN cx' = [op |-> "compile", expr |-> expr, context |-> context,
                 compiled |-> compiled,
                 values |-> IF compiled.raised THEN <<>>
                            ELSE getParams(compiled, context)]
    /\ UNCHANGED <<pgVars, tbVars, pkVars>>

\* the page filters: comparisons of arithmetic terms over the column age,
\* and AND, OR, NOT over comparisons
CxTerms0 == {mkColumn("age"), mkConstant(25)}

CxTerms ==
    CxTerms0 \cup {mkBinOp("+", l, r) : l \in CxTerms0, r \in CxTerms0}
             \cup {mkUnOp("-", t) : t \in CxTerms0}

CxComparisons(T) == {mkBinOp(o, l, r) : o \in {"=", "<"}, l \in T, r \in T}

CxFilters ==
    CxComparisons(CxTerms)
        \cup {mkBinOp(o, l, r) : o \in {"AND", "OR"},
                  l \in CxComparisons(CxTerms0), r \in CxComparisons(CxTerms0)}
        \cup {mkUnOp("NOT", c) : c \in CxComparisons(CxTerms0)}

CxRows == {[id |-> 1, age |-> a] : a \in Ages}

\* the same filter given to storage.findMany (compiled into the WHERE of the
\* page queries) and to rsqlExpressionToFilterFn (Table.findMany)
Evaluate(expr, row) ==
    /\ LET compiled == compileExpressionToSql(expr)
       IN cx' = [op |-> "filter", expr |-> expr, row |-> row,
                 compiled |-> compiled,
                 selected |-> ~compiled.raised /\ row \in Matching({row}, expr, Undefined),
                 verdict |-> rsqlExpressionToFilterFn(expr, row)]
    /\ UNCHANGED <<pgVars, tbVars, pkVars>>

CxNext ==
    \/ \E expr \in CxExprs, context \in CxContexts : Compile(expr, context)
    \/ \E expr \in CxFilters, row \in CxRows : Evaluate(expr, row)

CompileSpec == Init /\ [][CxNext]_vars

(***************************************************************************)
(* Claims on the compiler and the interpreter (checked under CompileSpec)  *)
(***************************************************************************)
\* the resolved values of a left-to-right traversal of the AST: each
\* constant's literal, each parameter's getValue(context)
RECURSIVE Traverse(_, _), TraverseAll(_, _)
Traverse(expr, context) ==
    CASE expr.kind \in {"constant", "parameter"} -> <<GetValue(expr, context)>>
      [] expr.kind = "binOp" ->
            Traverse(expr.left, context) \o Traverse(expr.right, context)
      [] expr.kind = "unOp" -> Traverse(expr.expression, context)
      [] expr.kind = "function" -> TraverseAll(expr.args, context)
      [] expr.kind = "tuple" -> TraverseAll(expr.expressions, context)
      [] OTHER -> <<>>

TraverseAll(list, context) ==
    IF Len(list) = 0 THEN <<>>
    ELSE Traverse(Head(list), context) \o TraverseAll(Tail(list), context)

Placeholders(sql) == Len(SelectSeq(sql, LAMBDA t : t = "?"))

\* C34: for every expression built from columns, constants, parameters and
\* the composite node kinds, compilation yields an extractor whose values
\* on a context are those of the left-to-right traversal of the AST, and the
\* SQL text holds as many `?` as there are values.
C34_ParameterRoundTrip ==
    cx.op = "compile" =>
        /\ ~cx.compiled.raised
        /\ cx.values = Traverse(cx.expr, cx.context)
        /\ Placeholders(cx.compiled.sql) = Len(Traverse(cx.expr, cx.context))

\* C35: compiling an expression with a unary + or - succeeds and renders
\* the operator prefixed to its operand, the way NOT is rendered as (NOT e);
\* it does not raise the unsupported-expression error.
C35_UnaryPlusMinus ==
    (cx.op = "compile" /\ cx.expr.kind = "unOp" /\ cx.expr.operator \in {"+", "-"}) =>
        /\ ~cx.compiled.raised
        /\ cx.compiled.sql =
              <<"(", cx.expr.operator>>
                  \o compileExpressionToSql(cx.expr.expression).sql \o <<")">>

\* C36: for every filter the compiler accepts that is built from columns,
\* constants, comparison and arithmetic operators, AND, OR and NOT, the
\* interpreter evaluates it on every row without raising and is true
\* exactly for the rows the compiled SQL predicate selects.
C36_InterpreterAgrees ==
    (cx.op = "filter" /\ ~cx.compiled.raised) =>
        /\ cx.verdict # "throw"
        /\ (cx.verdict = "true") = cx.selected

====
